---- MODULE Spec2Model ----
(***************************************************************************)
(* Model of the FAQ question-answering pipeline of internet_bank_rag_ai:   *)
(* the PII redactor (app/security/pii_detector.py), the hybrid retriever   *)
(* (app/retriever/hybrid_search.py, vector_store.py) and the orchestrator  *)
(* (app/agent/orchestrator.py, tools.py, llm/gemini_client.py).            *)
(*                                                                         *)
(* Text is a sequence of characters; a character is a one-element string.  *)
(* Hangul syllables are written romanised, one string per syllable         *)
(* ("bi","mil","beon","ho" for the four syllables of the password label).  *)
(***************************************************************************)
EXTENDS Integers, Sequences, FiniteSets, TLC

VARIABLES
    \* redaction scenario (detect_and_mask_pii as a function)
    text,        \* the input text
    masked,      \* text returned by the first redaction pass
    warnings,    \* warnings returned by the first redaction pass
    remasked,    \* text returned by redacting `masked` once more
    rewarnings,  \* warnings returned by that second pass
    pii_pc,      \* position of the redaction scenario
    \* conflict-resolution scenario (_resolve_conflicts as a function)
    docs,        \* the input list
    unique_docs, \* the returned list
    rc_pc,       \* position of the conflict-resolution scenario
    \* the retriever: HybridRetriever and its FAISSVectorStore
    chunks,      \* HybridRetriever.chunks, the corpus of the lexical index
    bm25_index,  \* TRUE when the BM25 index was built (chunks file present)
    metadata,    \* FAISSVectorStore.metadata, one entry per stored vector
    bm25_scores, \* bm25_index.get_scores(query tokens), aligned with chunks
    distances,   \* L2 distance of the query to each stored vector
    \* search scenario (HybridRetriever.search as a function)
    search_top_k,     \* the top_k argument
    search_filters,   \* the filters argument
    search_results,   \* the returned list
    search_pc,
    \* one request: FAQAgent.process_question
    pc,                 \* position in process_question
    question,           \* arguments
    channel,
    user_context,       \* << >> stands for None and for ""
    question_clean,     \* local variables
    user_context_clean,
    pii_warnings,
    intent,
    rewritten_query,
    retrieved_docs,
    answer_data,
    formatted_answer,
    calls,              \* the calls made to the collaborators, in order
    \* mask_text scenario: one pattern applied to one text
    mt_text,            \* the text argument
    mt_pattern,         \* the pattern argument, as its place in PII_PATTERNS
    mt_masked,          \* the returned text
    mt_was_masked,      \* the returned flag
    mt_pc,
    \* reindex scenario: the server process, its data directory and a request
    chunks_file,        \* data/processed_chunks.jsonl; << >> when absent
    index_file,         \* data/faiss_index/index.faiss: the chunk of each vector
    metadata_file,      \* data/faiss_index/metadata.json
    corpus_version,     \* the number of runs of scripts/preprocess.py
    _agent,             \* main.py globals: 0 for None, else a place in instances
    _vector_store,
    _retriever,
    instances,          \* every agent built so far with its retriever and store
    builds,             \* the number of calls of rebuild_index
    drops,              \* the number of calls that dropped the references
    req_pc,             \* the position of the request in ask_question
    req_agent,          \* its local variable agent
    req_view,           \* the instance as it was when the request obtained it
    \* rerank scenario: one call of HybridRetriever.rerank
    rr_results,         \* the results argument
    rr_query,           \* the query argument
    rr_top_k,           \* the top_k argument
    rr_reranked,        \* the returned list
    rr_pc

pii_vars == <<text, masked, warnings, remasked, rewarnings, pii_pc>>
rc_vars == <<docs, unique_docs, rc_pc>>
retriever_vars == <<chunks, bm25_index, metadata, bm25_scores, distances>>
search_vars == <<search_top_k, search_filters, search_results, search_pc>>

pq_vars == <<pc, question, channel, user_context, question_clean, user_context_clean,
             pii_warnings, intent, rewritten_query, retrieved_docs, answer_data,
             formatted_answer, calls>>

mt_vars == <<mt_text, mt_pattern, mt_masked, mt_was_masked, mt_pc>>

ri_vars == <<chunks_file, index_file, metadata_file, corpus_version, _agent,
             _vector_store, _retriever, instances, builds, drops, req_pc,
             req_agent, req_view>>

rr_vars == <<rr_results, rr_query, rr_top_k, rr_reranked, rr_pc>>

vars == <<pii_vars, rc_vars, retriever_vars, search_vars, pq_vars, mt_vars, ri_vars, rr_vars>>

-----------------------------------------------------------------------------
(* Generic sequence helpers                                                *)

Max(a, b) == IF a >= b THEN a ELSE b
Min(a, b) == IF a <= b THEN a ELSE b

\* s[a..b] with Python-like clipping (1-based, inclusive)
Slice(s, a, b) == IF a > b THEN << >> ELSE SubSeq(s, a, b)

\* Python s[:n]
Take(s, n) == Slice(s, 1, Min(n, Len(s)))

Range(s) == {s[i] : i \in DOMAIN s}

RECURSIVE Flatten(_)
Flatten(ss) == IF ss = << >> THEN << >> ELSE Head(ss) \o Flatten(Tail(ss))

\* does sequence `sub` occur in `s` starting at position i ?
OccursAt(s, sub, i) ==
    /\ i >= 1
    /\ i + Len(sub) - 1 <= Len(s)
    /\ \A k \in 1..Len(sub) : s[i + k - 1] = sub[k]

Contains(s, sub) == \E i \in 1..(Len(s) - Len(sub) + 1) : OccursAt(s, sub, i)

StartsWith(s, prefix) == OccursAt(s, prefix, 1)

-----------------------------------------------------------------------------
(* Character classes of the regular expressions in PII_PATTERNS            *)

Digits == {"0", "1", "2", "3", "4", "5", "6", "7", "8", "9"}

Letters == {"a", "b", "c", "d", "e", "f", "x", "o", "t", "p", "O", "T", "P"}

Hangul == {"bi", "mil", "beon", "ho", "pae", "seu", "wo", "deu", "bo", "an",
           "ka", "jeon", "che", "il", "hoe", "yong", "gye", "jwa", "sin",
           "ju", "min", "deung", "rok", "hwa"}

\* \s
Space == {" ", "\t", "\n"}

\* \w
WordChars == Digits \cup Letters \cup Hangul \cup {"_"}

\* [\w!@#$%^&*()_+\-=\[\]{};':"\\|,.<>\/?]
PwClass == WordChars \cup
           {"!", "@", "#", "$", "%", "^", "&", "*", "(", ")", "_", "+", "-",
            "=", "[", "]", "{", "}", ";", "'", ":", "\"", "\\", "|", ",",
            ".", "<", ">", "/", "?"}

\* [\d\s\-]
DigitSpaceDash == Digits \cup Space \cup {"-"}

Separators == {":", "="}

MaskChar == "*"

\* re.IGNORECASE: compare characters after case folding
Fold(c) == CASE c = "O" -> "o" [] c = "T" -> "t" [] c = "P" -> "p" [] OTHER -> c

-----------------------------------------------------------------------------
(* PII_PATTERNS, in dictionary order.  A pattern is                        *)
(*   label  : the literal words of the label, separated by \s*             *)
(*   group  : the alternatives of the (..|..) group after the label, in    *)
(*            order, or << >> when the pattern has no group                *)
(*   cls    : the shape of the value after [:=]\s*                         *)
(*   min    : the minimal number of value characters                       *)

BiMilBeonHo == <<"bi", "mil", "beon", "ho">>
JeonChe == <<"jeon", "che">>
BeonHo == <<"beon", "ho">>
JeonCheBeonHo == <<"jeon", "che", "beon", "ho">>

PII_PATTERNS == <<
    [type |-> "password", label |-> <<BiMilBeonHo>>, group |-> << >>,
     cls |-> "pw", min |-> 6],
    [type |-> "password", label |-> <<<<"pae", "seu", "wo", "deu">>>>, group |-> << >>,
     cls |-> "pw", min |-> 6],
    [type |-> "security_card_full", label |-> <<<<"bo", "an", "ka", "deu">>>>,
     group |-> <<JeonChe, BeonHo, JeonCheBeonHo>>, cls |-> "dsd", min |-> 12],
    [type |-> "security_card_full", label |-> <<<<"bo", "an", "ka", "deu">>>>,
     group |-> << >>, cls |-> "dsd", min |-> 12],
    [type |-> "otp_full", label |-> <<<<"o", "t", "p">>>>,
     group |-> <<JeonChe, BeonHo, JeonCheBeonHo>>, cls |-> "d", min |-> 6],
    [type |-> "otp_full", label |-> <<<<"il", "hoe", "yong">>, BiMilBeonHo>>,
     group |-> <<JeonChe, BeonHo>>, cls |-> "d", min |-> 6],
    [type |-> "account_full", label |-> <<<<"gye", "jwa", "beon", "ho">>>>,
     group |-> <<JeonChe, BeonHo>>, cls |-> "dsd", min |-> 10],
    [type |-> "account_full", label |-> <<<<"gye", "jwa">>>>, group |-> << >>,
     cls |-> "dsd", min |-> 10],
    [type |-> "card_number", label |-> <<<<"ka", "deu", "beon", "ho">>>>,
     group |-> <<JeonChe, BeonHo>>, cls |-> "dsd", min |-> 13],
    [type |-> "card_number", label |-> <<<<"sin", "yong", "ka", "deu">>>>,
     group |-> <<JeonChe, BeonHo>>, cls |-> "dsd", min |-> 13],
    [type |-> "resident_number", label |-> <<<<"ju", "min", "deung", "rok", "beon", "ho">>>>,
     group |-> << >>, cls |-> "rrn", min |-> 13],
    [type |-> "resident_number", label |-> <<<<"ju", "min", "beon", "ho">>>>,
     group |-> << >>, cls |-> "rrn", min |-> 13],
    [type |-> "phone_full", label |-> <<<<"jeon", "hwa", "beon", "ho">>>>,
     group |-> <<JeonChe, BeonHo>>, cls |-> "dsd", min |-> 10]
>>

-----------------------------------------------------------------------------
(* Regular-expression matching, as re.finditer performs it                 *)

\* first position >= i whose character is not in class C (Len(s)+1 at the end)
RECURSIVE SkipClass(_, _, _)
SkipClass(s, i, C) ==
    IF i <= Len(s) /\ s[i] \in C THEN SkipClass(s, i + 1, C) ELSE i

\* literal word at position i, ignoring case: position after it, or 0
MatchWord(s, w, i) ==
    IF /\ i + Len(w) - 1 <= Len(s)
       /\ \A k \in 1..Len(w) : Fold(s[i + k - 1]) = Fold(w[k])
    THEN i + Len(w) ELSE 0

\* the words of a label, \s* between them: position after the last word, or 0
RECURSIVE MatchLabel(_, _, _)
MatchLabel(s, ws, i) ==
    IF ws = << >> THEN i
    ELSE LET j == MatchWord(s, Head(ws), i)
         IN  IF j = 0 THEN 0
             ELSE IF Tail(ws) = << >> THEN j
             ELSE MatchLabel(s, Tail(ws), SkipClass(s, j, Space))

\* the value after the separator at position k: position after the match, or 0
MatchValue(s, p, k) ==
    IF p.cls = "dsd" THEN
        \* \s*[\d\s\-]{n,} : the whole run of digits, blanks and dashes
        LET e == SkipClass(s, k + 1, DigitSpaceDash)
        IN  IF e - (k + 1) >= p.min THEN e ELSE 0
    ELSE IF p.cls = "rrn" THEN
        \* \s*[\d]{6}\s*[-]?\s*[\d]{7}
        LET v  == SkipClass(s, k + 1, Space)
            d1 == SkipClass(s, v, Digits)
        IN  IF d1 - v < 6 THEN 0
            ELSE LET a  == SkipClass(s, v + 6, Space)
                     b  == IF a <= Len(s) /\ s[a] = "-" THEN a + 1 ELSE a
                     c  == SkipClass(s, b, Space)
                     d2 == SkipClass(s, c, Digits)
                 IN  IF d2 - c >= 7 THEN c + 7 ELSE 0
    ELSE
        \* \s*[class]{n,} with a class that holds no blank
        LET C == IF p.cls = "pw" THEN PwClass ELSE Digits
            v == SkipClass(s, k + 1, Space)
            e == SkipClass(s, v, C)
        IN  IF e - v >= p.min THEN e ELSE 0

\* \s*[:=] then the value, from position j
MatchSepValue(s, p, j) ==
    LET k == SkipClass(s, j, Space)
    IN  IF k <= Len(s) /\ s[k] \in Separators THEN MatchValue(s, p, k) ELSE 0

\* the alternatives of the group, tried in order
RECURSIVE MatchGroup(_, _, _, _)
MatchGroup(s, p, alts, j) ==
    IF alts = << >> THEN 0
    ELSE LET g == MatchWord(s, Head(alts), j)
             e == IF g = 0 THEN 0 ELSE MatchSepValue(s, p, g)
         IN  IF e # 0 THEN e ELSE MatchGroup(s, p, Tail(alts), j)

\* match of pattern p anchored at position i: position after it, or 0
MatchAt(s, p, i) ==
    LET j == MatchLabel(s, p.label, i)
    IN  IF j = 0 THEN 0
        ELSE IF p.group = << >> THEN MatchSepValue(s, p, j)
        ELSE MatchGroup(s, p, p.group, SkipClass(s, j, Space))

\* re.finditer: the non-overlapping matches <<start, end>> (end exclusive),
\* leftmost first, scanning from position i
RECURSIVE FindIter(_, _, _)
FindIter(s, p, i) ==
    IF i > Len(s) THEN << >>
    ELSE LET e == MatchAt(s, p, i)
         IN  IF e = 0 THEN FindIter(s, p, i + 1)
             ELSE <<<<i, e>>>> \o FindIter(s, p, e)

-----------------------------------------------------------------------------
(* mask_text and detect_and_mask_pii                                       *)

Stars(n) == [i \in 1..n |-> MaskChar]

\* str.strip()
Strip(s) ==
    LET a == SkipClass(s, 1, Space)
    IN  IF a > Len(s) THEN << >>
        ELSE LET b == CHOOSE j \in a..Len(s) :
                        /\ s[j] \notin Space
                        /\ \A k \in (j + 1)..Len(s) : s[k] \in Space
             IN  SubSeq(s, a, b)

\* position of the first separator of a match text
FirstSep(m) == CHOOSE i \in 1..Len(m) :
                  m[i] \in Separators /\ \A k \in 1..(i - 1) : m[k] \notin Separators

\* the stripped text after the first separator: re.split(r"[:=]", m, 1)[1].strip()
ValueOf(m) == Strip(Slice(m, FirstSep(m) + 1, Len(m)))

\* MaskedMatch with the bug of masking the value without stripping it
MaskedMatch_Unstripped(m) ==
    IF \E i \in 1..Len(m) : m[i] \in Separators THEN
        LET prefix == Slice(m, 1, FirstSep(m) - 1)
                        \o (IF ":" \in Range(m) THEN <<":">> ELSE <<"=">>)
        IN  prefix \o <<" ">> \o Stars(Len(m) - FirstSep(m))
    ELSE Stars(Len(m))

\* the replacement of one match text
MaskedMatch(m) ==
    IF \E i \in 1..Len(m) : m[i] \in Separators THEN
        LET prefix == Slice(m, 1, FirstSep(m) - 1)
                        \o (IF ":" \in Range(m) THEN <<":">> ELSE <<"=">>)
        IN  prefix \o <<" ">> \o Stars(Len(ValueOf(m)))
    ELSE Stars(Len(m))

\* the loop over reversed(list(matches)): ms holds the matches not yet
\* replaced, the last of them is replaced first
RECURSIVE ReplaceMatches(_, _, _)
ReplaceMatches(orig, cur, ms) ==
    IF ms = << >> THEN cur
    ELSE LET m == ms[Len(ms)]
             r == MaskedMatch(SubSeq(orig, m[1], m[2] - 1))
         IN  ReplaceMatches(orig,
                            Slice(cur, 1, m[1] - 1) \o r \o Slice(cur, m[2], Len(cur)),
                            SubSeq(ms, 1, Len(ms) - 1))

mask_text(t, p) ==
    LET ms == FindIter(t, p, 1)
    IN  [text |-> ReplaceMatches(t, t, ms), was_masked |-> ms # << >>]

_get_warning_message(pii_type) ==
    CASE pii_type = "password" -> "W_password"
      [] pii_type = "security_card_full" -> "W_security_card_full"
      [] pii_type = "otp_full" -> "W_otp_full"
      [] pii_type = "account_full" -> "W_account_full"
      [] pii_type = "card_number" -> "W_card_number"
      [] pii_type = "resident_number" -> "W_resident_number"
      [] pii_type = "phone_full" -> "W_phone_full"
      [] OTHER -> "W_default"

\* AddWarning with the bug of appending the message at every masking pattern
AddWarning_NoDedup(ws, was_masked, msg) ==
    IF was_masked THEN Append(ws, msg) ELSE ws

\* the warning list after one pattern: the message is appended once
AddWarning(ws, was_masked, msg) ==
    IF was_masked /\ msg \notin Range(ws) THEN Append(ws, msg) ELSE ws

\* the two nested loops over PII_PATTERNS, from pattern number n on
RECURSIVE MaskFrom(_, _, _)
MaskFrom(t, ws, n) ==
    IF n > Len(PII_PATTERNS) THEN [text |-> t, warnings |-> ws]
    ELSE LET r   == mask_text(t, PII_PATTERNS[n])
             msg == _get_warning_message(PII_PATTERNS[n].type)
         IN  MaskFrom(r.text, AddWarning(ws, r.was_masked, msg), n + 1)

detect_and_mask_pii(t) ==
    IF t = << >> THEN [text |-> t, warnings |-> << >>]
    ELSE MaskFrom(t, << >>, 1)

-----------------------------------------------------------------------------
(* Values shared by the retriever and the orchestrator                     *)

\* Python's None, and a dictionary key that is absent
None == "None"

\* truthiness of a string-or-None value
Truthy(v) == v # None /\ v # ""

\* an updated_at value: kind "ymd" is a string of the form YYYY-MM-DD with
\* the numbers y, m, d; "empty" is "", "none" is None, "junk" any other text
Ymd(y, m, d) == [kind |-> "ymd", y |-> y, m |-> m, d |-> d]
NoYmd(kind) == [kind |-> kind, y |-> 0, m |-> 0, d |-> 0]

IsLeap(y) == (y % 4 = 0 /\ y % 100 # 0) \/ y % 400 = 0

DaysIn(y, m) ==
    IF m = 2 THEN (IF IsLeap(y) THEN 29 ELSE 28)
    ELSE IF m \in {4, 6, 9, 11} THEN 30 ELSE 31

\* datetime.min, as a number that orders dates: 0001-01-01
DateMin == 10101

-----------------------------------------------------------------------------
(* FAQAgent._resolve_conflicts                                             *)

\* get_date: strptime(date_str, "%Y-%m-%d"), datetime.min when it raises
get_date(doc) ==
    LET u == doc.updated_at
    IN  IF /\ u.kind = "ymd"
           /\ u.y \in 1..9999
           /\ u.m \in 1..12
           /\ u.d \in 1..DaysIn(u.y, u.m)
        THEN u.y * 10000 + u.m * 100 + u.d
        ELSE DateMin

\* insert x behind every element whose date is not older than x's
RECURSIVE InsertByDate(_, _)
InsertByDate(sorted, x) ==
    IF sorted = << >> THEN <<x>>
    ELSE IF get_date(Head(sorted)) >= get_date(x)
         THEN <<Head(sorted)>> \o InsertByDate(Tail(sorted), x)
         ELSE <<x>> \o sorted

\* sorted(docs, key=get_date, reverse=True): stable, newest first
RECURSIVE SortByDateDesc(_)
SortByDateDesc(ds) ==
    IF ds = << >> THEN << >>
    ELSE InsertByDate(SortByDateDesc(SubSeq(ds, 1, Len(ds) - 1)), ds[Len(ds)])

\* KeepFirstPerFaq with the bug of deduplicating results without faq_id too
RECURSIVE KeepFirstPerFaq_DedupEmpty(_, _)
KeepFirstPerFaq_DedupEmpty(ds, seen_faq_ids) ==
    IF ds = << >> THEN << >>
    ELSE LET doc == Head(ds)
         IN  IF doc.faq_id \notin seen_faq_ids
             THEN <<doc>> \o KeepFirstPerFaq_DedupEmpty(Tail(ds), seen_faq_ids \cup {doc.faq_id})
             ELSE KeepFirstPerFaq_DedupEmpty(Tail(ds), seen_faq_ids)

\* the loop over sorted_docs with seen_faq_ids
RECURSIVE KeepFirstPerFaq(_, _)
KeepFirstPerFaq(ds, seen_faq_ids) ==
    IF ds = << >> THEN << >>
    ELSE LET doc == Head(ds)
             faq_id == doc.faq_id
         IN  IF Truthy(faq_id) /\ faq_id \notin seen_faq_ids
             THEN <<doc>> \o KeepFirstPerFaq(Tail(ds), seen_faq_ids \cup {faq_id})
             ELSE IF ~Truthy(faq_id)
             THEN <<doc>> \o KeepFirstPerFaq(Tail(ds), seen_faq_ids)
             ELSE KeepFirstPerFaq(Tail(ds), seen_faq_ids)

\* _resolve_conflicts with the bug of leaving out the sort by date
_resolve_conflicts_Unsorted(ds) == KeepFirstPerFaq(ds, {})

_resolve_conflicts(ds) == KeepFirstPerFaq(SortByDateDesc(ds), {})

-----------------------------------------------------------------------------
(* Scores.  The code computes scores in floating point; the model keeps    *)
(* them as exact fractions n/d with d > 0.                                 *)

R(n, d) == [n |-> n, d |-> d]

RAdd(a, b) == R(a.n * b.d + b.n * a.d, a.d * b.d)
RMul(a, b) == R(a.n * b.n, a.d * b.d)
REq(a, b) == a.n * b.d = b.n * a.d
RLeq(a, b) == a.n * b.d <= b.n * a.d
RZero == R(0, 1)

\* defaults of HybridRetriever.search
vector_weight == R(7, 10)
bm25_weight == R(3, 10)

\* longest snippet returned by _extract_snippet
MaxSnippetLength == 200

-----------------------------------------------------------------------------
(* FAISSVectorStore.search                                                 *)

\* a filter set: None stands for an absent key
Filters(category, chan) == [category |-> category, channel |-> chan]
NoFilters == Filters(None, None)

\* `if filters:` is false for None and for the empty dictionary
FiltersGiven(filters) == filters.category # None \/ filters.channel # None

\* dict.get("channel", "both")
ChannelOf(m) == IF "channel" \in DOMAIN m THEN m.channel ELSE "both"

\* the filter block of FAISSVectorStore.search: TRUE when the hit is skipped
StoreRejects(m, filters) ==
    /\ FiltersGiven(filters)
    /\ \/ filters.category # None /\ m.category # filters.category
       \/ /\ filters.channel # None
          /\ ChannelOf(m) # "both"
          /\ ChannelOf(m) # filters.channel

\* insert index x behind every index that is not farther than x
RECURSIVE InsertByDistance(_, _, _)
InsertByDistance(sorted, x, dist) ==
    IF sorted = << >> THEN <<x>>
    ELSE IF dist[Head(sorted)] <= dist[x]
         THEN <<Head(sorted)>> \o InsertByDistance(Tail(sorted), x, dist)
         ELSE <<x>> \o sorted

RECURSIVE NearestFirst(_, _)
NearestFirst(n, dist) ==
    IF n = 0 THEN << >> ELSE InsertByDistance(NearestFirst(n - 1, dist), n, dist)

\* index.search(query_vector, search_k): the search_k nearest vectors of
\* IndexFlatL2, nearest first
IndexSearch(dist, search_k) == Take(NearestFirst(Len(dist), dist), search_k)

\* FilterHits with the bug of never leaving the loop early
RECURSIVE FilterHits_NoBreak(_, _, _, _, _, _, _)
FilterHits_NoBreak(meta, dist, hits, i, k, filters, results) ==
    IF i > Len(hits) THEN results
    ELSE LET m == meta[hits[i]]
         IN  IF StoreRejects(m, filters)
             THEN FilterHits_NoBreak(meta, dist, hits, i + 1, k, filters, results)
             ELSE FilterHits_NoBreak(meta, dist, hits, i + 1, k, filters,
                      Append(results, [metadata |-> m, distance |-> dist[hits[i]]]))

\* the loop over the hits, from hit number i on, with the results so far
RECURSIVE FilterHits(_, _, _, _, _, _, _)
FilterHits(meta, dist, hits, i, k, filters, results) ==
    IF i > Len(hits) THEN results
    ELSE LET m == meta[hits[i]]
         IN  IF StoreRejects(m, filters)
             THEN FilterHits(meta, dist, hits, i + 1, k, filters, results)
             ELSE LET rs == Append(results, [metadata |-> m, distance |-> dist[hits[i]]])
                  IN  IF Len(rs) >= k THEN rs
                      ELSE FilterHits(meta, dist, hits, i + 1, k, filters, rs)

VectorStoreSearch(meta, dist, k, filters) ==
    IF Len(meta) = 0 THEN << >>
    ELSE LET search_k == Min(k * 10, Len(meta))
         IN  FilterHits(meta, dist, IndexSearch(dist, search_k), 1, k, filters, << >>)

-----------------------------------------------------------------------------
(* HybridRetriever                                                         *)

_extract_snippet(t) ==
    IF Len(t) <= MaxSnippetLength THEN t
    ELSE Take(t, MaxSnippetLength) \o <<".", ".", ".">>

_format_result(m, score) ==
    [chunk_id |-> m.chunk_id, faq_id |-> m.faq_id, title |-> m.title,
     text |-> m.text, category |-> m.category, url |-> m.url,
     updated_at |-> m.updated_at, channel |-> m.channel,
     score |-> score, snippet |-> _extract_snippet(m.text)]

_vector_search(meta, dist, k, filters) ==
    LET rs == VectorStoreSearch(meta, dist, k, filters)
    IN  [i \in 1..Len(rs) |-> _format_result(rs[i].metadata, R(rs[i].distance, 1))]

\* chunk_scores is a dictionary; the model keeps its entries in insertion
\* order, as Python does
HasKey(cs, cid) == \E i \in 1..Len(cs) : cs[i].chunk_id = cid

\* chunk_scores[cid] = entry
PutEntry(cs, e) ==
    IF HasKey(cs, e.chunk_id)
    THEN [i \in 1..Len(cs) |-> IF cs[i].chunk_id = e.chunk_id THEN e ELSE cs[i]]
    ELSE Append(cs, e)

\* vector_score = 1.0 / (1.0 + distance)
VectorScore(distance) == R(1, 1 + distance)

\* first loop of _hybrid_search: the vector hits
RECURSIVE AddVectorScores(_, _)
AddVectorScores(vrs, cs) ==
    IF vrs = << >> THEN cs
    ELSE LET m == Head(vrs).metadata
         IN  IF Truthy(m.chunk_id)
             THEN AddVectorScores(Tail(vrs),
                      PutEntry(cs, [chunk_id |-> m.chunk_id, metadata |-> m,
                                    vector_score |-> VectorScore(Head(vrs).distance),
                                    bm25_score |-> RZero]))
             ELSE AddVectorScores(Tail(vrs), cs)

RECURSIVE SeqMax(_)
SeqMax(s) == IF Len(s) = 1 THEN s[1] ELSE Max(Head(s), SeqMax(Tail(s)))

\* the normalisation of one BM25 score
NormalizedBM25(bm25_score, scores) ==
    IF bm25_score > 0
    THEN LET max_bm25 == SeqMax(scores)
         IN  IF max_bm25 > 0 THEN R(bm25_score, max_bm25) ELSE RZero
    ELSE RZero

\* LexicalRejects with the bug of comparing the channel for equality only
LexicalRejects_NoBoth(chunk, filters) ==
    /\ FiltersGiven(filters)
    /\ \/ filters.category # None /\ chunk.category # filters.category
       \/ /\ filters.channel # None
          /\ ChannelOf(chunk) # filters.channel

\* the filter block of the lexical path of _hybrid_search: TRUE when the
\* passage is skipped
LexicalRejects(chunk, filters) ==
    /\ FiltersGiven(filters)
    /\ \/ filters.category # None /\ chunk.category # filters.category
       \/ /\ filters.channel # None
          /\ ChannelOf(chunk) # "both"
          /\ ChannelOf(chunk) # filters.channel

ChunkMetadata(chunk) ==
    [chunk_id |-> chunk.chunk_id, faq_id |-> chunk.faq_id, title |-> chunk.title,
     category |-> chunk.category, url |-> chunk.url,
     updated_at |-> chunk.updated_at, channel |-> chunk.channel,
     text |-> chunk.text]

\* AddBM25Scores with the bug of leaving out a passage that the semantic
\* hits lack and whose BM25 score is not positive
RECURSIVE AddBM25Scores_PositiveOnly(_, _, _, _, _)
AddBM25Scores_PositiveOnly(cks, scores, i, filters, cs) ==
    IF i > Len(cks) THEN cs
    ELSE LET chunk == cks[i]
             norm == NormalizedBM25(scores[i], scores)
         IN  IF ~Truthy(chunk.chunk_id)
             THEN AddBM25Scores_PositiveOnly(cks, scores, i + 1, filters, cs)
             ELSE IF HasKey(cs, chunk.chunk_id)
             THEN AddBM25Scores_PositiveOnly(cks, scores, i + 1, filters,
                      [j \in 1..Len(cs) |->
                          IF cs[j].chunk_id = chunk.chunk_id
                          THEN [cs[j] EXCEPT !.bm25_score = norm] ELSE cs[j]])
             ELSE IF LexicalRejects(chunk, filters) \/ scores[i] <= 0
             THEN AddBM25Scores_PositiveOnly(cks, scores, i + 1, filters, cs)
             ELSE AddBM25Scores_PositiveOnly(cks, scores, i + 1, filters,
                      Append(cs, [chunk_id |-> chunk.chunk_id,
                                  metadata |-> ChunkMetadata(chunk),
                                  vector_score |-> RZero,
                                  bm25_score |-> norm]))

\* second loop of _hybrid_search: the corpus passages, from passage i on
RECURSIVE AddBM25Scores(_, _, _, _, _)
AddBM25Scores(cks, scores, i, filters, cs) ==
    IF i > Len(cks) THEN cs
    ELSE LET chunk == cks[i]
             norm == NormalizedBM25(scores[i], scores)
         IN  IF ~Truthy(chunk.chunk_id)
             THEN AddBM25Scores(cks, scores, i + 1, filters, cs)
             ELSE IF HasKey(cs, chunk.chunk_id)
             THEN AddBM25Scores(cks, scores, i + 1, filters,
                      [j \in 1..Len(cs) |->
                          IF cs[j].chunk_id = chunk.chunk_id
                          THEN [cs[j] EXCEPT !.bm25_score = norm] ELSE cs[j]])
             ELSE IF LexicalRejects(chunk, filters)
             THEN AddBM25Scores(cks, scores, i + 1, filters, cs)
             ELSE AddBM25Scores(cks, scores, i + 1, filters,
                      Append(cs, [chunk_id |-> chunk.chunk_id,
                                  metadata |-> ChunkMetadata(chunk),
                                  vector_score |-> RZero,
                                  bm25_score |-> norm]))

\* FinalScore with the bug of swapping the two weights
FinalScore_SwappedWeights(e) ==
    RAdd(RMul(e.vector_score, bm25_weight), RMul(e.bm25_score, vector_weight))

\* final_score of one entry of chunk_scores
FinalScore(e) ==
    RAdd(RMul(e.vector_score, vector_weight), RMul(e.bm25_score, bm25_weight))

\* insert x behind every element whose score is not lower than x's
RECURSIVE InsertByScore(_, _)
InsertByScore(sorted, x) ==
    IF sorted = << >> THEN <<x>>
    ELSE IF RLeq(x.score, Head(sorted).score)
         THEN <<Head(sorted)>> \o InsertByScore(Tail(sorted), x)
         ELSE <<x>> \o sorted

\* final_results.sort(key=score, reverse=True): stable, highest first
RECURSIVE SortByScoreDesc(_)
SortByScoreDesc(rs) ==
    IF rs = << >> THEN << >>
    ELSE InsertByScore(SortByScoreDesc(SubSeq(rs, 1, Len(rs) - 1)), rs[Len(rs)])

\* the fused records of _hybrid_search, before sorting
ChunkScores(cks, scores, meta, dist, k, filters) ==
    AddBM25Scores(cks, scores, 1, filters,
        AddVectorScores(VectorStoreSearch(meta, dist, k * 3, filters), << >>))

_hybrid_search(cks, scores, meta, dist, k, filters) ==
    LET cs == ChunkScores(cks, scores, meta, dist, k, filters)
        final_results == [i \in 1..Len(cs) |->
                             [metadata |-> cs[i].metadata, score |-> FinalScore(cs[i])]]
        top == Take(SortByScoreDesc(final_results), k)
    IN  [i \in 1..Len(top) |-> _format_result(top[i].metadata, top[i].score)]

\* HybridRetriever.search with use_hybrid left at its default
search(has_bm25, cks, scores, meta, dist, k, filters) ==
    IF has_bm25 THEN _hybrid_search(cks, scores, meta, dist, k, filters)
    ELSE _vector_search(meta, dist, k, filters)

\* _tokenize: re.findall(r'[\w...]+', text.lower()), the tokens from
\* position i on
RECURSIVE TokensFrom(_, _)
TokensFrom(t, i) ==
    IF i > Len(t) THEN << >>
    ELSE IF t[i] \notin WordChars THEN TokensFrom(t, i + 1)
    ELSE LET e == SkipClass(t, i, WordChars)
         IN  <<[k \in 1..(e - i) |-> Fold(t[i + k - 1])]>> \o TokensFrom(t, e)

_tokenize(t) == TokensFrom(t, 1)

Lower(t) == [k \in 1..Len(t) |-> Fold(t[k])]

\* rerank_score of one result
RerankScore(r, query_tokens) ==
    LET title_score == Cardinality({tk \in query_tokens : Contains(Lower(r.title), tk)}) * 2
        text_score == Cardinality({tk \in query_tokens : Contains(Lower(r.text), tk)})
    IN  title_score + text_score

\* InsertByRerank with the bug of a sort that puts a later result of equal
\* score first
RECURSIVE InsertByRerank_Unstable(_, _, _)
InsertByRerank_Unstable(sorted, x, query_tokens) ==
    IF sorted = << >> THEN <<x>>
    ELSE IF RerankScore(x, query_tokens) < RerankScore(Head(sorted), query_tokens)
         THEN <<Head(sorted)>> \o InsertByRerank_Unstable(Tail(sorted), x, query_tokens)
         ELSE <<x>> \o sorted

\* insert x behind every element whose rerank score is not lower than x's
RECURSIVE InsertByRerank(_, _, _)
InsertByRerank(sorted, x, query_tokens) ==
    IF sorted = << >> THEN <<x>>
    ELSE IF RerankScore(x, query_tokens) <= RerankScore(Head(sorted), query_tokens)
         THEN <<Head(sorted)>> \o InsertByRerank(Tail(sorted), x, query_tokens)
         ELSE <<x>> \o sorted

RECURSIVE SortByRerankDesc(_, _)
SortByRerankDesc(rs, query_tokens) ==
    IF rs = << >> THEN << >>
    ELSE InsertByRerank(SortByRerankDesc(SubSeq(rs, 1, Len(rs) - 1), query_tokens),
                        rs[Len(rs)], query_tokens)

\* HybridRetriever.rerank (the rerank_score it stores in each result is
\* read by the sort only)
rerank(rs, query, k) == Take(SortByRerankDesc(rs, Range(_tokenize(query))), k)

-----------------------------------------------------------------------------
(* app/agent/tools.py                                                      *)

\* retrieve_faq on the retriever state named by the first five arguments
retrieve_faq(has_bm25, cks, scores, meta, dist, query, k, filters) ==
    LET rs == search(has_bm25, cks, scores, meta, dist, k, filters)
    IN  IF Len(rs) > k THEN rerank(rs, query, k) ELSE rs

\* A value of the generative model's JSON answer: kind is "str" (val: the
\* text), "list" (val: the elements), "null", "num", or "missing" for a key
\* that is absent.
J(kind, val) == [kind |-> kind, val |-> val]
JStr(t) == J("str", t)
JList(l) == J("list", l)
JNull == J("null", << >>)
JNum == J("num", << >>)
JMissing == J("missing", << >>)

\* dict.get(key, default)
Get(d, key, default) == IF d[key].kind = "missing" THEN default ELSE d[key]

\* Falsy with the bug of testing for None only
Falsy_OnlyNone(j) == j.kind = "null"

\* Python's `not x` for a JSON value (a number of the model is not 0)
Falsy(j) ==
    \/ j.kind = "null"
    \/ j.kind \in {"str", "list"} /\ j.val = << >>

\* the canned answer; its first element is the no-match phrase
NoMatchPhrase == "gwanryeon FAQ-reul chajji mothaetseumnida"
CannedAnswer == <<NoMatchPhrase, ". ", "gogaeksenteo(1588-0000) ...">>

\* answer.startswith(no-match phrase), for a str value
StartsWithNoMatch(j) == StartsWith(j.val, <<NoMatchPhrase>>)

MaxCitations == 5
MaxSteps == 7
MaxFollowups == 2

\* str.split("\n") of a character sequence, from position i on
RECURSIVE SplitLinesFrom(_, _)
SplitLinesFrom(t, i) ==
    LET e == CHOOSE j \in i..(Len(t) + 1) :
                /\ (j = Len(t) + 1 \/ t[j] = "\n")
                /\ \A k \in i..(j - 1) : t[k] # "\n"
    IN  IF e > Len(t) THEN <<Slice(t, i, Len(t))>>
        ELSE <<Slice(t, i, e - 1)>> \o SplitLinesFrom(t, e + 1)

\* [s.strip() for s in x.split("\n") if s.strip()]
NonBlankLines(t) ==
    LET ls == SplitLinesFrom(t, 1)
        stripped == [i \in 1..Len(ls) |-> Strip(ls[i])]
    IN  SelectSeq(stripped, LAMBDA l : l # << >>)

\* LinesOrList with the bug of keeping the blank lines
LinesOrList_KeepBlank(j) ==
    IF j.kind = "str"
    THEN JList([i \in 1..Len(SplitLinesFrom(j.val, 1)) |-> Strip(SplitLinesFrom(j.val, 1)[i])])
    ELSE j

\* steps / followups: a str becomes the list of its non-blank lines
LinesOrList(j) == IF j.kind = "str" THEN JList(NonBlankLines(j.val)) ELSE j

\* the citation format_answer builds from one retrieved result
CitationOf(doc) ==
    [title |-> doc.title, url |-> doc.url, snippet |-> doc.snippet, faq_id |-> doc.faq_id]

\* the citations variable of format_answer after the synthesis block
FormatCitations(a_data, r_docs) ==
    LET citations == Get(a_data, "citations", JList(<< >>))
    IN  IF Falsy(citations) /\ r_docs # << >>
        THEN LET top == Take(r_docs, MaxCitations)
             IN  JList([i \in 1..Len(top) |-> CitationOf(top[i])])
        ELSE citations

\* does format_answer raise?  .startswith on an answer that is no str, or a
\* slice of steps / followups that are neither list nor str
FormatRaises(a_data, r_docs) ==
    \/ /\ Falsy(FormatCitations(a_data, r_docs))
       /\ Get(a_data, "answer", JStr(<< >>)).kind # "str"
    \/ LinesOrList(Get(a_data, "steps", JList(<< >>))).kind # "list"
    \/ LinesOrList(Get(a_data, "followups", JList(<< >>))).kind # "list"

\* a_data after format_answer: it overwrites the answer in place
FormatAnswerData(a_data, r_docs) ==
    IF /\ Falsy(FormatCitations(a_data, r_docs))
       /\ ~StartsWithNoMatch(Get(a_data, "answer", JStr(<< >>)))
    THEN [a_data EXCEPT !["answer"] = JStr(CannedAnswer)]
    ELSE a_data

\* the dictionary format_answer returns
format_answer(a_data, r_docs) ==
    LET citations == FormatCitations(a_data, r_docs)
        confidence == IF Falsy(citations) THEN JStr(<<"low">>)
                      ELSE Get(a_data, "confidence", JStr(<<"medium">>))
        data == FormatAnswerData(a_data, r_docs)
        steps == LinesOrList(Get(a_data, "steps", JList(<< >>)))
        followups == LinesOrList(Get(a_data, "followups", JList(<< >>)))
    IN  [answer |-> Get(data, "answer", JStr(<< >>)),
         steps |-> JList(Take(steps.val, MaxSteps)),
         citations |-> citations,
         followups |-> JList(Take(followups.val, MaxFollowups)),
         confidence |-> confidence,
         safety |-> Get(a_data, "safety", JStr(<< >>))]

-----------------------------------------------------------------------------
(* app/llm/gemini_client.py: what the client makes of the model's reply    *)

\* classify_intent: reply is the model's text as its list of words, or
\* "failed" when generate raised
\* ClassifyResult with the bug of returning the empty text of the model
ClassifyResult_EmptyKept(reply) ==
    IF reply = <<"failed">> THEN "gita"
    ELSE IF reply # << >> THEN Head(reply) ELSE ""

ClassifyResult(reply) ==
    IF reply = <<"failed">> THEN "gita"
    ELSE IF reply # << >> THEN Head(reply) ELSE "gita"

\* rewrite_query: reply is the stripped text of the model, or "failed"
RewriteResult(reply, q) ==
    IF reply = <<"failed">> THEN q
    ELSE IF reply # << >> THEN reply ELSE q

AnswerData(answer, steps, citations, confidence, followups) ==
    [answer |-> answer, steps |-> steps, citations |-> citations,
     confidence |-> confidence, followups |-> followups, safety |-> JMissing]

ErrorAnswer == <<"dapbyeon saengseong jung oryu">>

\* generate_answer: reply.kind is "failed" (generate raised), "text" (no
\* JSON: raw holds the text), "object" (a JSON object: data holds it) or
\* "value" (JSON that is no object, on which result.get raises)
\* GenerateResult with the bug of the parse fallback's confidence on failure
GenerateResult_FailureMedium(reply) ==
    IF reply.kind = "object" THEN reply.data
    ELSE IF reply.kind = "text"
    THEN AnswerData(JStr(reply.raw), JList(<< >>), JList(<< >>), JStr(<<"medium">>), JList(<< >>))
    ELSE AnswerData(JStr(ErrorAnswer), JList(<< >>), JList(<< >>), JStr(<<"medium">>), JList(<< >>))

GenerateResult(reply) ==
    IF reply.kind = "object" THEN reply.data
    ELSE IF reply.kind = "text"
    THEN AnswerData(JStr(reply.raw), JList(<< >>), JList(<< >>), JStr(<<"medium">>), JList(<< >>))
    ELSE AnswerData(JStr(ErrorAnswer), JList(<< >>), JList(<< >>), JStr(<<"low">>), JList(<< >>))

-----------------------------------------------------------------------------
(* FAQAgent.process_question, the parts between the collaborator calls     *)

RelaxThreshold == 3
RetrieveTopK == 10
MaxEvidence == 5

\* the filters of the first retrieval
FirstFilters(chan, intent_) ==
    Filters(IF intent_ # "" /\ intent_ # "gita" THEN intent_ ELSE None,
            IF Truthy(chan) THEN chan ELSE None)

\* the filters of the relaxed retrieval
RelaxedFilters(chan) == Filters(None, IF Truthy(chan) THEN chan ELSE None)

\* NeedsRelaxation with the bug of retrying on an empty result only
NeedsRelaxation_EmptyOnly(ds) == Len(ds) = 0

\* len(retrieved_docs) < 3
NeedsRelaxation(ds) == Len(ds) < RelaxThreshold

\* the merge loop: relaxed results whose chunk_id the first retrieval lacks
MergeRelaxed(first, relaxed) ==
    LET existing_ids == {first[i].chunk_id : i \in DOMAIN first}
    IN  first \o SelectSeq(relaxed, LAMBDA d : d.chunk_id \notin existing_ids)

\* " ".join(pii_warnings)
RECURSIVE JoinWithSpace(_)
JoinWithSpace(ws) ==
    IF ws = << >> THEN << >>
    ELSE IF Len(ws) = 1 THEN <<ws[1]>>
    ELSE <<ws[1], " ">> \o JoinWithSpace(Tail(ws))

CautionPrefix == "juui: "

\* step 8: the safety field
AttachSafety(fa, pii_warnings_) ==
    IF pii_warnings_ # << >>
    THEN [fa EXCEPT !.safety = JStr(<<CautionPrefix>> \o JoinWithSpace(pii_warnings_))]
    ELSE fa

\* step 9 raises when the answer it tests is no str
CalibrateRaises(fa) == Falsy(fa.citations) /\ fa.answer.kind # "str"

\* step 9: the confidence adjustment
CalibrateConfidence(fa) ==
    IF Falsy(fa.citations)
    THEN LET low == [fa EXCEPT !.confidence = JStr(<<"low">>)]
         IN  IF ~StartsWithNoMatch(fa.answer)
             THEN [low EXCEPT !.answer = JStr(CannedAnswer)]
             ELSE low
    ELSE fa

-----------------------------------------------------------------------------
(* Redaction scenario: a text is redacted, and the result redacted again   *)

MaxPieces == 3

SixLetters == <<"a", "b", "c", "d", "e", "f">>
TenDigits == <<"1", "2", "3", "4", "5", "6", "7", "8", "9", "0">>
Password1 == <<"a", "b", "c", "d", "e", "f", "1">>

PIIPieces == {
    BiMilBeonHo,
    <<"gye", "jwa">>,
    <<"O", "T", "P", " ", "beon", "ho">>,
    <<"ju", "min", "beon", "ho">>,
    <<":">>, <<"=">>, <<" ">>, <<"~">>,
    SixLetters,
    <<"a", "b", ":", "c", "d", "e">>,
    TenDigits,
    <<"1", "2", "3", "4", "5", "6", "-", "1", "2", "3", "4", "5", "6", "7">>,
    Stars(6)
}

PIITexts == {Flatten(ps) : ps \in UNION {[1..n -> PIIPieces] : n \in 0..MaxPieces}}

Idle == "idle"

IdlePII ==
    /\ text = << >>
    /\ masked = << >>
    /\ warnings = << >>
    /\ remasked = << >>
    /\ rewarnings = << >>
    /\ pii_pc = Idle

IdleResolve ==
    /\ docs = << >>
    /\ unique_docs = << >>
    /\ rc_pc = Idle

IdleRetriever ==
    /\ chunks = << >>
    /\ bm25_index = FALSE
    /\ metadata = << >>
    /\ bm25_scores = << >>
    /\ distances = << >>

IdleSearch ==
    /\ search_top_k = 0
    /\ search_filters = NoFilters
    /\ search_results = << >>
    /\ search_pc = Idle

NoAnswerData == AnswerData(JMissing, JMissing, JMissing, JMissing, JMissing)

NoAnswer == [answer |-> JMissing, steps |-> JMissing, citations |-> JMissing,
             followups |-> JMissing, confidence |-> JMissing, safety |-> JMissing]

\* the locals of process_question before it assigns them
UnsetLocals ==
    /\ question_clean = << >>
    /\ user_context_clean = << >>
    /\ pii_warnings = << >>
    /\ intent = ""
    /\ rewritten_query = << >>
    /\ retrieved_docs = << >>
    /\ answer_data = NoAnswerData
    /\ formatted_answer = NoAnswer
    /\ calls = << >>

IdleRequest ==
    /\ pc = Idle
    /\ question = << >>
    /\ channel = None
    /\ user_context = << >>
    /\ UnsetLocals

IdleMask ==
    /\ mt_text = << >>
    /\ mt_pattern = 0
    /\ mt_masked = << >>
    /\ mt_was_masked = FALSE
    /\ mt_pc = Idle

NoInstance == [index |-> << >>, metadata |-> << >>, chunks |-> << >>, after |-> 0]

IdleReindex ==
    /\ chunks_file = << >>
    /\ index_file = << >>
    /\ metadata_file = << >>
    /\ corpus_version = 0
    /\ _agent = 0
    /\ _vector_store = 0
    /\ _retriever = 0
    /\ instances = << >>
    /\ builds = 0
    /\ drops = 0
    /\ req_pc = Idle
    /\ req_agent = 0
    /\ req_view = NoInstance

IdleRerank ==
    /\ rr_results = << >>
    /\ rr_query = << >>
    /\ rr_top_k = 0
    /\ rr_reranked = << >>
    /\ rr_pc = Idle

\* texts in which one category recurs, through one pattern and through
\* both of its patterns, and in which categories come in another order
\* than in the pattern table
RecurringTexts == {
    BiMilBeonHo \o <<":">> \o SixLetters \o <<" ", "pae", "seu", "wo", "deu", ":">>
        \o Password1 \o <<" ">> \o BiMilBeonHo \o <<"=">> \o SixLetters
        \o <<" ", "gye", "jwa", "=">> \o TenDigits,
    <<"gye", "jwa", "=">> \o TenDigits \o <<"x", " ">> \o BiMilBeonHo \o <<":">> \o SixLetters,
    <<"gye", "jwa", ":">> \o TenDigits \o <<"x", "gye", "jwa", "beon", "ho", " ",
        "beon", "ho", "=">> \o TenDigits \o <<"x", "O", "T", "P", " ", "jeon", "che", ":",
        "1", "2", "3", "4", "5", "6">>
}

InitPII ==
    /\ text \in PIITexts \cup RecurringTexts
    /\ masked = << >>
    /\ warnings = << >>
    /\ remasked = << >>
    /\ rewarnings = << >>
    /\ pii_pc = "input"
    /\ IdleResolve /\ IdleRetriever /\ IdleSearch /\ IdleRequest /\ IdleMask /\ IdleReindex /\ IdleRerank

Redact ==
    /\ pii_pc = "input"
    /\ LET r == detect_and_mask_pii(text)
       IN  /\ masked' = r.text
           /\ warnings' = r.warnings
    /\ pii_pc' = "masked"
    /\ UNCHANGED <<text, remasked, rewarnings>>
    /\ UNCHANGED <<rc_vars, retriever_vars, search_vars, pq_vars, mt_vars, ri_vars, rr_vars>>

RedactAgain ==
    /\ pii_pc = "masked"
    /\ LET r == detect_and_mask_pii(masked)
       IN  /\ remasked' = r.text
           /\ rewarnings' = r.warnings
    /\ pii_pc' = "remasked"
    /\ UNCHANGED <<text, masked, warnings>>
    /\ UNCHANGED <<rc_vars, retriever_vars, search_vars, pq_vars, mt_vars, ri_vars, rr_vars>>

NextPII == Redact \/ RedactAgain

SpecPII == InitPII /\ [][NextPII]_vars

-----------------------------------------------------------------------------
(* mask_text scenario: one pattern of the table is applied to one text     *)

RrnDigits == <<"1", "2", "3", "4", "5", "6", "-", "1", "2", "3", "4", "5", "6", "7">>

\* texts that the patterns match in different ways: several separators and
\* blanks, a separator character inside the value, two matches, no match
MaskTexts == {
    <<"x", " ">> \o BiMilBeonHo \o <<":", " ">> \o SixLetters \o <<" ", "x">>,
    BiMilBeonHo \o <<"=">> \o SixLetters,
    BiMilBeonHo \o <<" ", ":", " ", " ">> \o SixLetters \o <<"~", "1">>,
    BiMilBeonHo \o <<"=", "a", "b", ":", "c", "d", "e">>,
    BiMilBeonHo \o <<":">> \o SixLetters \o <<" ">> \o BiMilBeonHo \o <<"=">> \o Password1,
    <<"pae", "seu", "wo", "deu", ":">> \o Password1,
    <<"gye", "jwa", "=">> \o TenDigits \o <<" ", "x">>,
    <<"gye", "jwa", "beon", "ho", " ", "jeon", "che", ":", " ">> \o TenDigits,
    <<"O", "T", "P", " ", "beon", "ho", "=">> \o <<"6", "5", "4", "3", "2", "1">>,
    <<"ju", "min", "beon", "ho", ":">> \o RrnDigits \o <<"8">>,
    <<"x", " ", "a", "b", "c">>
}

InitMask ==
    /\ mt_text \in MaskTexts
    /\ mt_pattern \in DOMAIN PII_PATTERNS
    /\ mt_masked = << >>
    /\ mt_was_masked = FALSE
    /\ mt_pc = "input"
    /\ IdlePII /\ IdleResolve /\ IdleRetriever /\ IdleSearch /\ IdleRequest /\ IdleReindex /\ IdleRerank

MaskText ==
    /\ mt_pc = "input"
    /\ LET r == mask_text(mt_text, PII_PATTERNS[mt_pattern])
       IN  /\ mt_masked' = r.text
           /\ mt_was_masked' = r.was_masked
    /\ mt_pc' = "masked"
    /\ UNCHANGED <<mt_text, mt_pattern>>
    /\ UNCHANGED <<pii_vars, rc_vars, retriever_vars, search_vars, pq_vars, ri_vars, rr_vars>>

NextMask == MaskText

SpecMask == InitMask /\ [][NextMask]_vars

-----------------------------------------------------------------------------
(* Reindex scenario: app/main.py get_agent, ask_question and rebuild_index *)
(* with scripts/preprocess.py and scripts/build_index.py on the data       *)
(* directory. The handlers are coroutines without an await and             *)
(* subprocess.run blocks the event loop, so each handler runs alone; the   *)
(* model also lets a reindex fall between the two steps of a request,      *)
(* which is more than the event loop allows.                               *)

MaxVersions == 2
MaxBuilds == 2

\* the chunks that preprocess.py writes from version v of the raw FAQ
VersionChunks(v) ==
    <<[version |-> v, chunk_id |-> "a"], [version |-> v, chunk_id |-> "b"]>>

\* FAISSVectorStore._load_index: both files or a new, empty index
LoadIndex(ifile, mfile) ==
    IF ifile # << >> /\ mfile # << >>
    THEN [index |-> ifile, metadata |-> mfile]
    ELSE [index |-> << >>, metadata |-> << >>]

\* FAISSVectorStore.add_documents on a loaded store
AddDocuments(store, texts) ==
    IF texts = << >> THEN store
    ELSE [index |-> store.index \o texts, metadata |-> store.metadata \o texts]

\* build_index.py main up to save: the store it constructs loads the index
\* of the data directory, then every chunk of the chunks file is added
BuiltStore == AddDocuments(LoadIndex(index_file, metadata_file), chunks_file)

\* the outcomes of the script when the chunks file exists: it saves both
\* files; GeminiEmbeddings() fails and main returns; add_documents raises;
\* the process ends between the two writes of save
BuildOutcomes == {"saved", "no_embedding_model", "embedding_error", "metadata_not_written"}

\* the return code of the script process
ReturnCode(outcome) ==
    IF outcome \in {"saved", "no_embedding_model", "no_chunks_file"} THEN 0 ELSE 1

\* the data directory is empty, or holds the chunks of version 1 and the
\* index built from them
InitReindex ==
    /\ corpus_version \in {0, 1}
    /\ chunks_file = IF corpus_version = 0 THEN << >> ELSE VersionChunks(1)
    /\ index_file = chunks_file
    /\ metadata_file = chunks_file
    /\ _agent = 0
    /\ _vector_store = 0
    /\ _retriever = 0
    /\ instances = << >>
    /\ builds = 0
    /\ drops = 0
    /\ req_pc = "idle"
    /\ req_agent = 0
    /\ req_view = NoInstance
    /\ IdlePII /\ IdleResolve /\ IdleRetriever /\ IdleSearch /\ IdleRequest /\ IdleMask
    /\ IdleRerank

OutsideReindex == <<pii_vars, rc_vars, retriever_vars, search_vars, pq_vars, mt_vars, rr_vars>>

\* scripts/preprocess.py main: the chunks file is written anew
Preprocess ==
    /\ corpus_version < MaxVersions
    /\ corpus_version' = corpus_version + 1
    /\ chunks_file' = VersionChunks(corpus_version')
    /\ UNCHANGED <<index_file, metadata_file, _agent, _vector_store, _retriever,
                   instances, builds, drops, req_pc, req_agent, req_view>>
    /\ UNCHANGED OutsideReindex

\* rebuild_index: the script runs to its end, then a return code of 0
\* drops the three references
RebuildIndex ==
    /\ builds < MaxBuilds
    /\ builds' = builds + 1
    /\ \E outcome \in IF chunks_file = << >> THEN {"no_chunks_file"} ELSE BuildOutcomes :
          /\ index_file' = IF outcome \in {"saved", "metadata_not_written"}
                           THEN BuiltStore.index ELSE index_file
          /\ metadata_file' = IF outcome = "saved"
                              THEN BuiltStore.metadata ELSE metadata_file
          /\ IF ReturnCode(outcome) = 0
             THEN /\ _agent' = 0
                  /\ _vector_store' = 0
                  /\ _retriever' = 0
                  /\ drops' = drops + 1
             ELSE UNCHANGED <<_agent, _vector_store, _retriever, drops>>
    /\ UNCHANGED <<chunks_file, corpus_version, instances, req_pc, req_agent, req_view>>
    /\ UNCHANGED OutsideReindex

\* get_agent when _agent is None: the store loads the index of the data
\* directory and the retriever reads the chunks file
NewInstance ==
    [index |-> LoadIndex(index_file, metadata_file).index,
     metadata |-> LoadIndex(index_file, metadata_file).metadata,
     chunks |-> chunks_file,
     after |-> drops]

\* ask_question line 329: agent = get_agent()
AskGetAgent ==
    /\ req_pc = "idle"
    /\ IF _agent = 0
       THEN /\ instances' = Append(instances, NewInstance)
            /\ _agent' = Len(instances')
            /\ _vector_store' = Len(instances')
            /\ _retriever' = Len(instances')
       ELSE UNCHANGED <<instances, _agent, _vector_store, _retriever>>
    /\ req_agent' = _agent'
    /\ req_view' = instances'[_agent']
    /\ req_pc' = "processing"
    /\ UNCHANGED <<chunks_file, index_file, metadata_file, corpus_version, builds, drops>>
    /\ UNCHANGED OutsideReindex

\* ask_question lines 332-348: agent.process_question and the response
AskProcess ==
    /\ req_pc = "processing"
    /\ req_pc' = "idle"
    /\ UNCHANGED <<chunks_file, index_file, metadata_file, corpus_version, _agent,
                   _vector_store, _retriever, instances, builds, drops, req_agent,
                   req_view>>
    /\ UNCHANGED OutsideReindex

NextReindex ==
    \/ Preprocess
    \/ RebuildIndex
    \/ AskGetAgent
    \/ AskProcess

SpecReindex == InitReindex /\ [][NextReindex]_vars

-----------------------------------------------------------------------------
(* Rerank scenario: HybridRetriever.rerank on a list of results            *)

MaxResults == 3
MaxRerankTopK == 2

\* a search result with the two fields rerank reads
Result(id, title, body) == [chunk_id |-> id, title |-> title, text |-> body]

\* results whose titles and texts hold none, one or both of the words of
\* the queries, in capitals too and inside a longer word
RerankResults == {
    Result("r1", <<"a", "b", " ", "x">>, <<"c", "d">>),
    Result("r2", <<"x">>, <<"a", "b", " ", "c", "d">>),
    Result("r3", <<"O", "T", "P">>, <<"x", "a", "b", "x", " ", "c", "d">>),
    Result("r4", <<"c", "d", " ", "a", "b">>, << >>)
}

RerankQueries == {
    <<"a", "b">>,
    <<"a", "b", " ", "c", "d", " ", "a", "b">>,
    <<"o", "t", "p", "?", " ", "e", "f">>
}

InitRerank ==
    /\ \E n \in 0..MaxResults : rr_results \in [1..n -> RerankResults]
    /\ rr_query \in RerankQueries
    /\ rr_top_k \in 1..MaxRerankTopK
    /\ rr_reranked = << >>
    /\ rr_pc = "input"
    /\ IdlePII /\ IdleResolve /\ IdleRetriever /\ IdleSearch /\ IdleRequest /\ IdleMask
    /\ IdleReindex

Rerank ==
    /\ rr_pc = "input"
    /\ rr_reranked' = rerank(rr_results, rr_query, rr_top_k)
    /\ rr_pc' = "reranked"
    /\ UNCHANGED <<rr_results, rr_query, rr_top_k>>
    /\ UNCHANGED <<pii_vars, rc_vars, retriever_vars, search_vars, pq_vars, mt_vars, ri_vars>>

NextRerank == Rerank

SpecRerank == InitRerank /\ [][NextRerank]_vars

-----------------------------------------------------------------------------
(* Conflict-resolution scenario: _resolve_conflicts on a list of results   *)

MaxDocs == 3

FaqIdValues == {"A", "B", "", None}

UpdatedAtValues == {Ymd(2023, 1, 1), Ymd(2024, 6, 1), Ymd(2024, 2, 30), NoYmd("none")}

\* a retrieved result as far as _resolve_conflicts reads it; chunk_id tells
\* the results of one list apart
ResolveDocs(n) ==
    {[i \in 1..n |-> [chunk_id |-> i, faq_id |-> f[i], updated_at |-> u[i]]] :
        f \in [1..n -> FaqIdValues], u \in [1..n -> UpdatedAtValues]}

InitResolve ==
    /\ docs \in UNION {ResolveDocs(n) : n \in 0..MaxDocs}
    /\ unique_docs = << >>
    /\ rc_pc = "input"
    /\ IdlePII /\ IdleRetriever /\ IdleSearch /\ IdleRequest /\ IdleMask /\ IdleReindex /\ IdleRerank

ResolveConflicts ==
    /\ rc_pc = "input"
    /\ unique_docs' = _resolve_conflicts(docs)
    /\ rc_pc' = "resolved"
    /\ UNCHANGED docs
    /\ UNCHANGED <<pii_vars, retriever_vars, search_vars, pq_vars, mt_vars, ri_vars, rr_vars>>

NextResolve == ResolveConflicts

SpecResolve == InitResolve /\ [][NextResolve]_vars

-----------------------------------------------------------------------------
(* Search scenario: HybridRetriever.search on a small corpus               *)

MaxTopK == 2
MaxDistance == 2
MaxBM25 == 2
\* rank_bm25 gives a negative score to a term found in most passages when
\* the average idf of the corpus is negative
BM25Values == (-1)..MaxBM25

Passage(id, faq, cat, chan, date) ==
    [chunk_id |-> id, faq_id |-> faq, title |-> <<"title", id>>, text |-> <<"text", id>>,
     category |-> cat, url |-> <<"url", faq>>, updated_at |-> date, channel |-> chan]

SearchCorpus == <<
    Passage("c1", "A", "iche", "web", Ymd(2024, 6, 1)),
    Passage("c2", "B", "login", "mobile", Ymd(2024, 6, 1)),
    Passage("c3", "A", "iche", "both", Ymd(2023, 1, 1))
>>

\* a passage the vector index may still hold after it left the corpus
RetiredPassage == Passage("c4", "C", "iche", "both", Ymd(2022, 1, 1))

\* the vector index holds the corpus, an older snapshot that lacks the last
\* passage, or an older snapshot that still holds a retired passage
StoreSnapshots(corpus) ==
    {[i \in 1..Len(corpus) |-> ChunkMetadata(corpus[i])],
     [i \in 1..(Len(corpus) - 1) |-> ChunkMetadata(corpus[i])],
     [i \in 1..Len(corpus) |-> ChunkMetadata(corpus[i])] \o <<ChunkMetadata(RetiredPassage)>>}

SearchFilterSets == {Filters(cat, chan) : cat \in {None, "iche"}, chan \in {None, "web", "both"}}

InitSearch ==
    /\ bm25_index \in BOOLEAN
    /\ chunks = IF bm25_index THEN SearchCorpus ELSE << >>
    /\ metadata \in StoreSnapshots(SearchCorpus)
    /\ bm25_scores \in IF bm25_index
                       THEN [1..Len(SearchCorpus) -> BM25Values]
                       ELSE {<< >>}
    /\ distances \in [1..Len(metadata) -> 0..MaxDistance]
    /\ search_top_k \in 1..MaxTopK
    /\ search_filters \in SearchFilterSets
    /\ search_results = << >>
    /\ search_pc = "input"
    /\ IdlePII /\ IdleResolve /\ IdleRequest /\ IdleMask /\ IdleReindex /\ IdleRerank

Search ==
    /\ search_pc = "input"
    /\ search_results' = search(bm25_index, chunks, bm25_scores, metadata, distances,
                                 search_top_k, search_filters)
    /\ search_pc' = "returned"
    /\ UNCHANGED <<search_top_k, search_filters>>
    /\ UNCHANGED <<pii_vars, rc_vars, retriever_vars, pq_vars, mt_vars, ri_vars, rr_vars>>

\* retrieve_faq on the same retriever; the position records whether the
\* guard len(results) > top_k sent the results through rerank
RetrieveFaq ==
    /\ search_pc = "input"
    /\ \E query \in RerankQueries :
          /\ search_results' = retrieve_faq(bm25_index, chunks, bm25_scores, metadata,
                                            distances, query, search_top_k, search_filters)
          /\ search_pc' = IF Len(search(bm25_index, chunks, bm25_scores, metadata, distances,
                                        search_top_k, search_filters)) > search_top_k
                          THEN "reranked" ELSE "retrieved"
    /\ UNCHANGED <<search_top_k, search_filters>>
    /\ UNCHANGED <<pii_vars, rc_vars, retriever_vars, pq_vars, mt_vars, ri_vars, rr_vars>>

NextSearch == Search

-----------------------------------------------------------------------------
(* Retrieval scenario: search and retrieve_faq on the same corpus, with    *)
(* BM25 scores that are negative, zero or the largest                      *)

CoarseBM25 == {-1, 0, MaxBM25}

InitRetrieve ==
    /\ bm25_index \in BOOLEAN
    /\ chunks = IF bm25_index THEN SearchCorpus ELSE << >>
    /\ metadata \in StoreSnapshots(SearchCorpus)
    /\ bm25_scores \in IF bm25_index
                       THEN [1..Len(SearchCorpus) -> CoarseBM25]
                       ELSE {<< >>}
    /\ distances \in [1..Len(metadata) -> 0..MaxDistance]
    /\ search_top_k \in 1..MaxTopK
    /\ search_filters \in SearchFilterSets
    /\ search_results = << >>
    /\ search_pc = "input"
    /\ IdlePII /\ IdleResolve /\ IdleRequest /\ IdleMask /\ IdleReindex /\ IdleRerank

NextRetrieve == Search \/ RetrieveFaq

SpecRetrieve == InitRetrieve /\ [][NextRetrieve]_vars

SpecSearch == InitSearch /\ [][NextSearch]_vars

-----------------------------------------------------------------------------
(* One request through FAQAgent.process_question                           *)

Questions == {
    <<"x", " ", "a", "b", "c">>,
    BiMilBeonHo \o <<":", " ">> \o Password1
}

Contexts == {
    << >>,
    BiMilBeonHo \o <<"=">> \o SixLetters
}

Channels == {None, "web", "mobile"}

PipelineCorpus == <<
    Passage("c1", "F1", "iche", "both", Ymd(2024, 6, 1)),
    Passage("c2", "F2", "login", "web", Ymd(2023, 1, 1)),
    Passage("c3", "F2", "login", "both", Ymd(2024, 6, 1)),
    Passage("c4", "", "login", "web", NoYmd("empty")),
    Passage("c5", "F3", "login", "both", Ymd(2024, 2, 30)),
    Passage("c6", "F4", "gita", "mobile", Ymd(2022, 1, 1))
>>

PipelineStore == [i \in 1..Len(PipelineCorpus) |-> ChunkMetadata(PipelineCorpus[i])]

Env(has_bm25, cks, meta, scores, dist) ==
    [bm25_index |-> has_bm25, chunks |-> cks, metadata |-> meta,
     bm25_scores |-> scores, distances |-> dist]

\* the retriever a request runs against, with the scores its query gets:
\* hybrid, pure-semantic (no chunks file), or pure-semantic over an empty index
Environments == {
    Env(TRUE, PipelineCorpus, PipelineStore, <<2, 0, 1, -1, 0, 2>>, <<1, 0, 2, 1, 0, 2>>),
    Env(TRUE, PipelineCorpus, PipelineStore, <<0, 0, 0, 0, 0, 0>>, <<0, 1, 1, 2, 0, 1>>),
    Env(FALSE, << >>, PipelineStore, << >>, <<1, 0, 2, 1, 0, 2>>),
    Env(FALSE, << >>, << >>, << >>, << >>)
}

\* replies of the generative model to the classification prompt
ClassifyReplies == {<<"failed">>, << >>, <<"iche">>, <<"login", "ibnida">>, <<"gita">>, <<"moreum">>}

\* replies of the generative model to the rewrite prompt
RewriteReplies == {<<"failed">>, << >>, <<"x", " ", "t">>}

\* a citation the model wrote by itself
ModelCitation == [title |-> <<"title", "made up">>, url |-> <<"url", "made up">>,
                  snippet |-> <<"text">>, faq_id |-> None]

Reply(kind, raw, data) == [kind |-> kind, raw |-> raw, data |-> data]

\* eight steps and three follow-ups as the model may write them in one
\* string each, with blank lines and blanks around the entries
StepLines == <<"1", "\n", "\n", " ", "2", " ", "\n", "3", "\n", " ", "\n", "4", "\n",
               "5", "\n", "6", "\n", "7", "\n", "8", "\n">>
FollowupLines == <<"f", "1", "\n", "\n", "f", "2", "\n", " ", "f", "3", " ">>

Digits7 == <<"1", "2", "3", "4", "5", "6", "7">>

EightSteps == [i \in 1..8 |-> <<"s", i>>]
ThreeFollowups == [i \in 1..3 |-> <<"f", i>>]
SixCitations == [i \in 1..6 |-> ModelCitation]

\* JSON objects of the model that stray from the requested structure:
\* strings for lists, long lists, an unknown confidence, null and numbers
OddReplies == {
    Reply("object", << >>, AnswerData(JStr(<<"answer">>), JStr(StepLines),
            JList(<<ModelCitation>>), JStr(<<"high">>), JStr(FollowupLines))),
    Reply("object", << >>, AnswerData(JStr(<<"answer">>), JList(EightSteps),
            JList(SixCitations), JStr(<<"certain">>), JList(ThreeFollowups))),
    Reply("object", << >>, AnswerData(JStr(<<"answer">>), JNull,
            JMissing, JNull, JMissing)),
    Reply("object", << >>, AnswerData(JNum, JList(<< >>),
            JList(<<ModelCitation>>), JNum, JList(<< >>)))
}

\* replies of the generative model to the answer prompt
GenerateReplies ==
    {Reply("failed", << >>, NoAnswerData),
     Reply("text", <<"raw", "answer">>, NoAnswerData),
     Reply("value", << >>, NoAnswerData)}
    \cup
    {Reply("object", << >>, AnswerData(a, JList(<<<<"s1">>>>), c, cf, JList(<< >>))) :
        a \in {JStr(<<NoMatchPhrase, " ", "more">>), JStr(<<"answer">>), JNull},
        c \in {JMissing, JList(<< >>), JList(<<ModelCitation>>)},
        cf \in {JStr(<<"high">>), JStr(<<"low">>), JMissing}}
    \cup OddReplies

\* one call of a collaborator: its arguments, the reply of the model behind
\* it (<< >> for the retriever) and what it returned
Call(op, q, ctx, query, filters, reply, result) ==
    [op |-> op, question |-> q, context |-> ctx, query |-> query,
     filters |-> filters, top_k |-> IF op = "search" THEN RetrieveTopK ELSE 0,
     reply |-> reply, result |-> result]

Init ==
    /\ pc = "start"
    /\ question \in Questions
    /\ channel \in Channels
    /\ user_context \in Contexts
    /\ UnsetLocals
    /\ \E e \in Environments :
          /\ bm25_index = e.bm25_index
          /\ chunks = e.chunks
          /\ metadata = e.metadata
          /\ bm25_scores = e.bm25_scores
          /\ distances = e.distances
    /\ IdlePII /\ IdleResolve /\ IdleSearch /\ IdleMask /\ IdleReindex /\ IdleRerank

\* requests whose texts hold sensitive values of several kinds, typed in
\* several ways, against one retriever
DownstreamQuestions == Questions \cup {
    Password1 \o <<" ">> \o BiMilBeonHo \o <<":", " ">> \o Password1,
    <<"gye", "jwa", "=">> \o TenDigits \o <<" ", "x">>,
    <<"O", "T", "P", " ", "beon", "ho", ":", "6", "5", "4", "3", "2", "1">>,
    <<"o", "t", "p", " ", "beon", "ho", " ", "=", " ", "1", "2", "3", "4", "5", "6", "7">>,
    <<"ju", "min", "beon", "ho", ":", "1", "2", "3", "4", "5", "6", "-",
      "1", "2", "3", "4", "5", "6", "7", "8">>,
    BiMilBeonHo \o <<"=">> \o SixLetters \o <<" ", "gye", "jwa", ":">> \o TenDigits
}

InitDownstream ==
    /\ pc = "start"
    /\ question \in DownstreamQuestions
    /\ channel = "web"
    /\ user_context \in Contexts
    /\ UnsetLocals
    /\ bm25_index = TRUE
    /\ chunks = PipelineCorpus
    /\ metadata = PipelineStore
    /\ bm25_scores = <<2, 0, 1, -1, 0, 2>>
    /\ distances = <<1, 0, 2, 1, 0, 2>>
    /\ IdlePII /\ IdleResolve /\ IdleSearch /\ IdleMask /\ IdleReindex /\ IdleRerank

OtherScenarios == <<pii_vars, rc_vars, search_vars, retriever_vars, mt_vars, ri_vars, rr_vars>>
Arguments == <<question, channel, user_context>>

\* lines 53-59: the redaction of the question and of the user context
PQ_Redact ==
    /\ pc = "start"
    /\ LET q == detect_and_mask_pii(question)
           c == detect_and_mask_pii(user_context)
       IN  /\ question_clean' = q.text
           /\ user_context_clean' = IF user_context # << >> THEN c.text ELSE << >>
           /\ pii_warnings' = IF user_context # << >> THEN q.warnings \o c.warnings
                              ELSE q.warnings
    /\ pc' = "redacted"
    /\ UNCHANGED <<intent, rewritten_query, retrieved_docs, answer_data,
                   formatted_answer, calls, Arguments, OtherScenarios>>

\* lines 61-62
PQ_ClassifyIntent ==
    /\ pc = "redacted"
    /\ \E reply \in ClassifyReplies :
          /\ intent' = ClassifyResult(reply)
          /\ calls' = Append(calls, Call("classify_intent", question_clean, << >>, << >>,
                                         NoFilters, reply, ClassifyResult(reply)))
    /\ pc' = "classified"
    /\ UNCHANGED <<question_clean, user_context_clean, pii_warnings, rewritten_query,
                   retrieved_docs, answer_data, formatted_answer, Arguments, OtherScenarios>>

\* lines 64-65
PQ_RewriteQuery ==
    /\ pc = "classified"
    /\ \E reply \in RewriteReplies :
          /\ rewritten_query' = RewriteResult(reply, question_clean)
          /\ calls' = Append(calls, Call("rewrite_query", question_clean, << >>, << >>,
                                         NoFilters, reply,
                                         RewriteResult(reply, question_clean)))
    /\ pc' = "rewritten"
    /\ UNCHANGED <<question_clean, user_context_clean, pii_warnings, intent,
                   retrieved_docs, answer_data, formatted_answer, Arguments, OtherScenarios>>

\* PQ_Retrieve with the bug of a search that writes into the metadata of
\* the vector store
PQ_Retrieve_WritesToStore ==
    /\ pc = "rewritten"
    /\ LET fs == FirstFilters(channel, intent)
           rs == retrieve_faq(bm25_index, chunks, bm25_scores, metadata, distances,
                              rewritten_query, RetrieveTopK, fs)
       IN  /\ retrieved_docs' = rs
           /\ calls' = Append(calls, Call("search", << >>, << >>, rewritten_query, fs, << >>, rs))
    /\ metadata' = [i \in DOMAIN metadata |-> [metadata[i] EXCEPT !.title = <<"seen">>]]
    /\ pc' = "retrieved"
    /\ UNCHANGED <<question_clean, user_context_clean, pii_warnings, intent,
                   rewritten_query, answer_data, formatted_answer, Arguments,
                   pii_vars, rc_vars, search_vars, mt_vars, ri_vars, rr_vars,
                   chunks, bm25_index, bm25_scores, distances>>

\* lines 67-79: the first retrieval
PQ_Retrieve ==
    /\ pc = "rewritten"
    /\ LET fs == FirstFilters(channel, intent)
           rs == retrieve_faq(bm25_index, chunks, bm25_scores, metadata, distances,
                              rewritten_query, RetrieveTopK, fs)
       IN  /\ retrieved_docs' = rs
           /\ calls' = Append(calls, Call("search", << >>, << >>, rewritten_query, fs, << >>, rs))
    /\ pc' = "retrieved"
    /\ UNCHANGED <<question_clean, user_context_clean, pii_warnings, intent,
                   rewritten_query, answer_data, formatted_answer, Arguments, OtherScenarios>>

\* lines 81-99: the relaxed retrieval and the merge, when results are few
PQ_RelaxAndRetry ==
    /\ pc = "retrieved"
    /\ IF NeedsRelaxation(retrieved_docs)
       THEN LET fs == RelaxedFilters(channel)
                rs == retrieve_faq(bm25_index, chunks, bm25_scores, metadata, distances,
                                   rewritten_query, RetrieveTopK, fs)
            IN  /\ retrieved_docs' = MergeRelaxed(retrieved_docs, rs)
                /\ calls' = Append(calls, Call("search", << >>, << >>, rewritten_query, fs, << >>, rs))
       ELSE UNCHANGED <<retrieved_docs, calls>>
    /\ pc' = "merged"
    /\ UNCHANGED <<question_clean, user_context_clean, pii_warnings, intent,
                   rewritten_query, answer_data, formatted_answer, Arguments, OtherScenarios>>

\* lines 101-102
PQ_ResolveConflicts ==
    /\ pc = "merged"
    /\ retrieved_docs' = _resolve_conflicts(retrieved_docs)
    /\ pc' = "resolved"
    /\ UNCHANGED <<question_clean, user_context_clean, pii_warnings, intent,
                   rewritten_query, answer_data, formatted_answer, calls, Arguments,
                   OtherScenarios>>

\* GenerateAnswerArguments with the bug of passing the question as it came
GenerateAnswerArguments_RawQuestion ==
    [question |-> question, evidence |-> Take(retrieved_docs, MaxEvidence),
     context |-> user_context_clean]

\* lines 105-109: the arguments of generate_answer
GenerateAnswerArguments ==
    [question |-> question_clean, evidence |-> Take(retrieved_docs, MaxEvidence),
     context |-> user_context_clean]

\* lines 104-109
PQ_GenerateAnswer ==
    /\ pc = "resolved"
    /\ \E reply \in GenerateReplies :
          /\ answer_data' = GenerateResult(reply)
          /\ calls' = Append(calls, Call("generate_answer",
                                         GenerateAnswerArguments.question,
                                         GenerateAnswerArguments.context,
                                         GenerateAnswerArguments.evidence, NoFilters,
                                         reply, GenerateResult(reply)))
    /\ pc' = "generated"
    /\ UNCHANGED <<question_clean, user_context_clean, pii_warnings, intent,
                   rewritten_query, retrieved_docs, formatted_answer, Arguments,
                   OtherScenarios>>

\* lines 111-112; an exception of format_answer ends the request
PQ_FormatAnswer ==
    /\ pc = "generated"
    /\ IF FormatRaises(answer_data, retrieved_docs)
       THEN /\ pc' = "raised"
            /\ UNCHANGED <<answer_data, formatted_answer>>
       ELSE /\ pc' = "formatted"
            /\ formatted_answer' = format_answer(answer_data, retrieved_docs)
            /\ answer_data' = FormatAnswerData(answer_data, retrieved_docs)
    /\ UNCHANGED <<question_clean, user_context_clean, pii_warnings, intent,
                   rewritten_query, retrieved_docs, calls, Arguments, OtherScenarios>>

\* lines 114-117
PQ_AttachSafety ==
    /\ pc = "formatted"
    /\ formatted_answer' = AttachSafety(formatted_answer, pii_warnings)
    /\ pc' = "safety_attached"
    /\ UNCHANGED <<question_clean, user_context_clean, pii_warnings, intent,
                   rewritten_query, retrieved_docs, answer_data, calls, Arguments,
                   OtherScenarios>>

\* lines 119-128: the confidence adjustment and the return
PQ_CalibrateConfidence ==
    /\ pc = "safety_attached"
    /\ IF CalibrateRaises(formatted_answer)
       THEN /\ pc' = "raised"
            /\ UNCHANGED formatted_answer
       ELSE /\ pc' = "returned"
            /\ formatted_answer' = CalibrateConfidence(formatted_answer)
    /\ UNCHANGED <<question_clean, user_context_clean, pii_warnings, intent,
                   rewritten_query, retrieved_docs, answer_data, calls, Arguments,
                   OtherScenarios>>

Next ==
    \/ PQ_Redact
    \/ PQ_ClassifyIntent
    \/ PQ_RewriteQuery
    \/ PQ_Retrieve
    \/ PQ_RelaxAndRetry
    \/ PQ_ResolveConflicts
    \/ PQ_GenerateAnswer
    \/ PQ_FormatAnswer
    \/ PQ_AttachSafety
    \/ PQ_CalibrateConfidence

Spec == Init /\ [][Next]_vars

SpecDownstream == InitDownstream /\ [][Next]_vars

Positions == {"start", "redacted", "classified", "rewritten", "retrieved", "merged",
              "resolved", "generated", "formatted", "safety_attached", "returned",
              "raised"}

\* process_question is one thread of blocking calls without a wait: until
\* it has returned or raised, the request moves on to its next position
RunsOn == pc \notin {"returned", "raised"} /\ pc' \in Positions /\ pc' # pc

SpecLive == Init /\ [][Next]_vars /\ WF_pc(RunsOn)

-----------------------------------------------------------------------------
(* Properties of process_question                                          *)

CallsTo(ops) == {i \in DOMAIN calls : calls[i].op \in ops}
LLMCalls == CallsTo({"classify_intent", "rewrite_query", "generate_answer"})
SearchCalls == CallsTo({"search"})
GenerateCalls == CallsTo({"generate_answer"})

\* the values that the patterns match in a text, as the user typed them
MatchedValues(t) ==
    UNION {{ValueOf(SubSeq(t, m[1], m[2] - 1)) :
                m \in Range(FindIter(t, PII_PATTERNS[n], 1))} : n \in DOMAIN PII_PATTERNS}

OnlyMaskChars(v) == \A i \in DOMAIN v : v[i] = MaskChar

\* no pattern matches a value in t that is anything but mask characters
NoUnmaskedMatch(t) == \A v \in MatchedValues(t) : OnlyMaskChars(v)

RedactedQuestion == detect_and_mask_pii(question).text
RedactedContext == IF user_context # << >> THEN detect_and_mask_pii(user_context).text
                   ELSE << >>

Returned == pc = "returned"

NoCitations(fa) == fa.citations.kind # "list" \/ fa.citations.val = << >>

IsLow(fa) == fa.confidence = JStr(<<"low">>)

\* the answer of the model as generate_answer returned it
ModelAnswer == Get(calls[CHOOSE i \in GenerateCalls : TRUE].result, "answer", JStr(<< >>))

\* C2: a returned answer without citations has confidence low and begins
\* with the no-match phrase: it is the model's answer when that begins with
\* the phrase, and the canned answer otherwise.
C2_NoCitationsMeansLowAndCanned ==
    (Returned /\ NoCitations(formatted_answer)) =>
        /\ IsLow(formatted_answer)
        /\ formatted_answer.answer.kind = "str"
        /\ StartsWithNoMatch(formatted_answer.answer)
        /\ formatted_answer.answer = IF ModelAnswer.kind = "str" /\ StartsWithNoMatch(ModelAnswer)
                                     THEN ModelAnswer ELSE JStr(CannedAnswer)

\* an answer of the model with confidence high and an empty citation list,
\* over no evidence, was returned with the canned answer
C2_Witness ==
    /\ Returned
    /\ NoCitations(formatted_answer)
    /\ retrieved_docs = << >>
    /\ ModelAnswer = JStr(<<"answer">>)
    /\ \E i \in GenerateCalls : calls[i].result.confidence = JStr(<<"high">>)
    /\ formatted_answer.answer = JStr(CannedAnswer)

\* both retrievals of the request came back empty
RetrievalEmpty == \A i \in SearchCalls : calls[i].result = << >>

\* C3: when retrieval returns nothing, the returned answer has no citations,
\* confidence low and the no-match phrase, whatever the model replied.
C3_NoResultsMeansNoCitations ==
    (Returned /\ RetrievalEmpty) =>
        /\ formatted_answer.citations = JList(<< >>)
        /\ IsLow(formatted_answer)
        /\ StartsWithNoMatch(formatted_answer.answer)

FirstSearch == calls[CHOOSE i \in SearchCalls : \A j \in SearchCalls : i <= j]
LastSearch == calls[CHOOSE i \in SearchCalls : \A j \in SearchCalls : i >= j]

ExpectedCategory == IF intent # "" /\ intent # "gita" THEN intent ELSE None
ExpectedChannel == IF channel \in {"web", "mobile"} THEN channel ELSE None

\* the results of `relaxed` whose chunk_id is not among those of `first`
NewIn(first, relaxed) ==
    SelectSeq(relaxed, LAMBDA d : \A i \in DOMAIN first : first[i].chunk_id # d.chunk_id)

\* C6: once retrieval is over, there was a second retrieval iff the first
\* (top_k 10, channel and category filters) returned fewer than 3 results;
\* the second has the same query and the channel filter only, and the list
\* is the first results followed by the new relaxed results, in order.
C6_RelaxationRetry ==
    pc = "merged" =>
        /\ Cardinality(SearchCalls) \in {1, 2}
        /\ FirstSearch.top_k = 10
        /\ FirstSearch.query = rewritten_query
        /\ FirstSearch.filters = [category |-> ExpectedCategory, channel |-> ExpectedChannel]
        /\ Cardinality(SearchCalls) = 2 <=> Len(FirstSearch.result) < 3
        /\ Cardinality(SearchCalls) = 1 => retrieved_docs = FirstSearch.result
        /\ Cardinality(SearchCalls) = 2 =>
              /\ LastSearch.top_k = 10
              /\ LastSearch.query = FirstSearch.query
              /\ LastSearch.filters = [category |-> None, channel |-> ExpectedChannel]
              /\ retrieved_docs = FirstSearch.result
                                    \o NewIn(FirstSearch.result, LastSearch.result)
              /\ (Len(FirstSearch.result) = 1 /\ Len(LastSearch.result) = 5)
                    => Len(retrieved_docs) >= 3

\* one filtered and five relaxed results were merged into a list of five
C6_Witness ==
    /\ pc = "merged"
    /\ Cardinality(SearchCalls) = 2
    /\ Len(FirstSearch.result) = 1
    /\ Len(LastSearch.result) = 5
    /\ Len(retrieved_docs) = 5

\* ws without the later copies of a message
RECURSIVE Distinct(_)
Distinct(ws) ==
    IF ws = << >> THEN << >>
    ELSE LET init == Distinct(SubSeq(ws, 1, Len(ws) - 1))
             last == ws[Len(ws)]
         IN  IF last \in Range(init) THEN init ELSE Append(init, last)

\* C13: when the redaction of the question or of the user context produced a
\* warning, the safety field of the returned answer is the caution prefix
\* followed by the distinct warning messages, each of them once.
C13_SafetyListsEachWarningOnce ==
    (Returned /\ pii_warnings # << >>) =>
        formatted_answer.safety = JStr(<<CautionPrefix>> \o JoinWithSpace(Distinct(pii_warnings)))

\* C14: a returned answer has at most 5 citations, whether format_answer
\* built them from the retrieved results or the model supplied them.
C14_AtMostFiveCitations ==
    Returned => Len(formatted_answer.citations.val) <= 5

\* the data generate_answer returned to process_question
ModelData == calls[CHOOSE i \in GenerateCalls : TRUE].result

\* the lines of a text, cut at its line breaks
RECURSIVE LinesOf(_)
LinesOf(t) ==
    IF "\n" \notin Range(t) THEN <<t>>
    ELSE LET k == CHOOSE n \in DOMAIN t : t[n] = "\n" /\ \A m \in 1..(n - 1) : t[m] # "\n"
         IN  <<SubSeq(t, 1, k - 1)>> \o LinesOf(SubSeq(t, k + 1, Len(t)))

IsBlank(l) == \A n \in DOMAIN l : l[n] \in Space

\* the entries of a steps or followups value: the trimmed non-blank lines of
\* a string in order, the elements of a list
Entries(j) ==
    IF j.kind = "str"
    THEN LET kept == SelectSeq(LinesOf(j.val), LAMBDA l : ~IsBlank(l))
         IN  [n \in 1..Len(kept) |-> Strip(kept[n])]
    ELSE j.val

FirstEntries(j, n) == LET es == Entries(j) IN SubSeq(es, 1, IF Len(es) < n THEN Len(es) ELSE n)

Formatted == pc \in {"formatted", "safety_attached", "returned"}

\* C15: the steps of a formatted answer are the first 7 entries at most of
\* the model's steps and its followups the first 2 at most of the model's
\* followups, where a string counts as its trimmed non-blank lines in order.
C15_StepsAndFollowupsNormalized ==
    Formatted =>
        /\ formatted_answer.steps = JList(FirstEntries(Get(ModelData, "steps", JList(<< >>)), 7))
        /\ formatted_answer.followups
              = JList(FirstEntries(Get(ModelData, "followups", JList(<< >>)), 2))

\* steps written as one string of eight lines among blank ones and followups
\* as one string of three lines were cut to seven and to two entries
C15_Witness ==
    /\ Returned
    /\ ModelData.steps = JStr(StepLines)
    /\ ModelData.followups = JStr(FollowupLines)
    /\ formatted_answer.steps.val = [n \in 1..7 |-> <<Digits7[n]>>]
    /\ formatted_answer.followups.val = <<(<<"f", "1">>), (<<"f", "2">>)>>

\* C16: the confidence of a returned answer is 'high', 'medium' or 'low',
\* whatever confidence the model's output carries.
C16_ConfidenceIsHighMediumLow ==
    Returned => formatted_answer.confidence \in {JStr(<<"high">>), JStr(<<"medium">>), JStr(<<"low">>)}

ClassifyCalls == CallsTo({"classify_intent"})
RewriteCalls == CallsTo({"rewrite_query"})

\* the model call failed, or the model returned nothing but blanks
FailedOrEmpty(reply) == reply = <<"failed">> \/ reply = << >>

BeforeRetrieval == pc \in {"start", "redacted", "classified", "rewritten"}

\* C17: a failed or empty classification gives the intent 'gita' (other), a
\* failed or empty rewrite gives the redacted question as the retrieval
\* query, and in neither case does the request end before retrieval.
C17_ClassifyAndRewriteNeverFatal ==
    /\ \A i \in ClassifyCalls :
          FailedOrEmpty(calls[i].reply) => calls[i].result = "gita" /\ intent = "gita"
    /\ \A i \in RewriteCalls :
          FailedOrEmpty(calls[i].reply) =>
              /\ calls[i].result = calls[i].question
              /\ rewritten_query = calls[i].question
              /\ \A k \in SearchCalls : calls[k].query = calls[i].question
    /\ ~BeforeRetrieval => SearchCalls # {}
    /\ pc = "raised" => GenerateCalls # {}

\* the classification failed, the rewrite came back empty, and the redacted
\* question with a masked password was searched without a category filter
C17_Witness ==
    /\ pc = "retrieved"
    /\ \E i \in ClassifyCalls : calls[i].reply = <<"failed">>
    /\ \E i \in RewriteCalls : calls[i].reply = << >>
    /\ FirstSearch.query = question_clean
    /\ MaskChar \in Range(FirstSearch.query)
    /\ FirstSearch.filters.category = None

\* a payload whose steps, citations and followups are empty lists
RestEmpty(d) ==
    /\ d.steps = JList(<< >>)
    /\ d.citations = JList(<< >>)
    /\ d.followups = JList(<< >>)

\* C18: generate_answer always returns a payload: on output that is no JSON
\* the raw output is the answer, the rest is empty and the confidence is
\* the default 'medium'; on any other failure the payload has confidence
\* 'low' and an explanatory answer, the request does not raise and the
\* answer returned by process_question has confidence 'low'.
C18_GenerateAnswerNeverRaises ==
    /\ \A i \in GenerateCalls :
        LET r == calls[i].reply
            d == calls[i].result
        IN  /\ r.kind = "text" =>
                  /\ d.answer = JStr(r.raw)
                  /\ RestEmpty(d)
                  /\ d.confidence = JStr(<<"medium">>)
            /\ r.kind \in {"failed", "value"} =>
                  /\ d.answer.kind = "str" /\ d.answer.val # << >>
                  /\ RestEmpty(d)
                  /\ d.confidence = JStr(<<"low">>)
                  /\ pc # "raised"
                  /\ Returned => IsLow(formatted_answer)
            /\ pc = "generated" => answer_data = d
    /\ pc = "raised" =>
          \E i \in GenerateCalls : calls[i].reply.kind = "object"

\* the model call failed although passages had been retrieved, and the
\* request returned the explanatory answer with low confidence
C18_Witness ==
    /\ Returned
    /\ retrieved_docs # << >>
    /\ \E i \in GenerateCalls : calls[i].reply.kind = "failed"
    /\ formatted_answer.answer = JStr(ErrorAnswer)
    /\ IsLow(formatted_answer)

\* the corpus versions of the chunks of a list
Versions(cs) == {cs[k].version : k \in DOMAIN cs}

\* the lexical corpus and the vector index of one retriever are of one
\* generation (a retriever without one of the two has nothing to compare)
SameGeneration(inst) ==
    \/ inst.chunks = << >>
    \/ inst.index = << >>
    \/ /\ Versions(inst.index) = Versions(inst.chunks)
       /\ Versions(inst.metadata) = Versions(inst.chunks)

\* the request in flight works on the instance it obtained, unchanged
RequestKeepsInstance ==
    req_pc = "processing" =>
        /\ req_agent \in DOMAIN instances
        /\ instances[req_agent] = req_view

\* a retriever constructed after a reindex is of one generation
RebuiltOfOneGeneration ==
    \A i \in DOMAIN instances : instances[i].after > 0 => SameGeneration(instances[i])

\* no step changes an instance that exists
NeverMutatedInPlace ==
    \A i \in DOMAIN instances : i \in DOMAIN instances' /\ instances'[i] = instances[i]

\* C20: a request interleaved with a reindex keeps the one instance it
\* obtained from get_agent, rebuild_index never changes an existing
\* retriever or vector store in place, and a retriever constructed after a
\* reindex has its lexical corpus and its vector index from the same
\* index generation.
C20_NoTornIndexState ==
    /\ [](RequestKeepsInstance /\ RebuiltOfOneGeneration)
    /\ [][NeverMutatedInPlace]_vars

\* the first two parts of C20 alone
C20_InstancesAreSwappedWhole ==
    /\ []RequestKeepsInstance
    /\ [][NeverMutatedInPlace]_vars

\* C19: whatever the classify, rewrite and generate calls come back with,
\* process_question does not raise, and the answer it returns has its six
\* fields.
C19_NoOutcomeRaises ==
    /\ pc # "raised"
    /\ Returned => \A f \in DOMAIN formatted_answer : formatted_answer[f].kind # "missing"

-----------------------------------------------------------------------------
(* Properties of _resolve_conflicts                                        *)

\* updated_at read as YYYY-MM-DD; what does not parse counts as the minimum date
ClaimDate(u) ==
    IF u.kind = "ymd" /\ u.y \in 1..9999 /\ u.m \in 1..12 /\ u.d \in 1..DaysIn(u.y, u.m)
    THEN <<u.y, u.m, u.d>> ELSE <<1, 1, 1>>

NotOlder(a, b) ==
    LET x == ClaimDate(a)
        y == ClaimDate(b)
    IN  \/ x[1] > y[1]
        \/ x[1] = y[1] /\ x[2] > y[2]
        \/ x[1] = y[1] /\ x[2] = y[2] /\ x[3] >= y[3]

\* C4: the output of _resolve_conflicts holds no two results with the same
\* non-empty faq_id, and the survivor of each non-empty faq_id is an input
\* result of that faq_id whose updated_at is the greatest among them
C4_NewestPerFaqId ==
    rc_pc = "resolved" =>
        /\ \A i, j \in DOMAIN unique_docs :
              (i # j /\ Truthy(unique_docs[i].faq_id))
                  => unique_docs[i].faq_id # unique_docs[j].faq_id
        /\ \A k \in DOMAIN docs :
              Truthy(docs[k].faq_id) =>
                  \E i \in DOMAIN unique_docs :
                      /\ unique_docs[i].faq_id = docs[k].faq_id
                      /\ unique_docs[i] \in Range(docs)
                      /\ NotOlder(unique_docs[i].updated_at, docs[k].updated_at)

\* an older and a newer result of one FAQ, the older first, were resolved
C4_Witness ==
    /\ rc_pc = "resolved"
    /\ Len(unique_docs) < Len(docs)
    /\ \E i, j \in DOMAIN docs :
          /\ i < j
          /\ docs[i].faq_id = "A" /\ docs[j].faq_id = "A"
          /\ docs[i].updated_at = Ymd(2023, 1, 1)
          /\ docs[j].updated_at = Ymd(2024, 6, 1)

\* C5: every input result without faq_id (None or empty) is in the output,
\* once each, and the output holds only input results, none of them twice
C5_NoFaqIdNeverRemoved ==
    rc_pc = "resolved" =>
        /\ \A k \in DOMAIN docs :
              ~Truthy(docs[k].faq_id) =>
                  Cardinality({i \in DOMAIN unique_docs : unique_docs[i] = docs[k]}) = 1
        /\ \A i \in DOMAIN unique_docs : unique_docs[i] \in Range(docs)
        /\ \A i, j \in DOMAIN unique_docs : i # j => unique_docs[i] # unique_docs[j]

\* two results with the empty faq_id and one with a faq_id were resolved,
\* and both of the former are in the output
C5_Witness ==
    /\ rc_pc = "resolved"
    /\ Cardinality({k \in DOMAIN docs : docs[k].faq_id = ""}) = 2
    /\ \E k \in DOMAIN docs : Truthy(docs[k].faq_id)
    /\ Cardinality({i \in DOMAIN unique_docs : unique_docs[i].faq_id = ""}) = 2

-----------------------------------------------------------------------------
(* Properties of HybridRetriever.search                                    *)

\* C7: search returns at most top_k results, ordered by descending score,
\* in hybrid mode and in pure-semantic mode
C7_AtMostTopKDescending ==
    search_pc = "returned" =>
        /\ Len(search_results) <= search_top_k
        /\ \A i, j \in DOMAIN search_results :
              i < j => RLeq(search_results[j].score, search_results[i].score)

\* the passages search can return: the corpus and the vector index
Candidates == Range(chunks) \cup Range(metadata)

SatisfiesFilters(r, fs) ==
    /\ fs.category # None => r.category = fs.category
    /\ fs.channel # None => r.channel \in {"both", fs.channel}

\* C8: with a channel filter neither path rejects a passage whose channel is
\* "both" (it is returned when nothing is truncated and its category fits),
\* and every returned result satisfies the filter set
C8_FiltersRespected ==
    search_pc = "returned" =>
        /\ \A i \in DOMAIN search_results :
              SatisfiesFilters(search_results[i], search_filters)
        /\ \A m \in Candidates :
              m.channel = "both" =>
                  /\ ~StoreRejects(m, Filters(None, search_filters.channel))
                  /\ ~LexicalRejects(m, Filters(None, search_filters.channel))
        /\ Len(search_results) < search_top_k =>
              \A m \in Candidates :
                  (m.channel = "both" /\ SatisfiesFilters(m, search_filters))
                      => \E i \in DOMAIN search_results :
                            search_results[i].chunk_id = m.chunk_id

\* a "both" passage found by the lexical path only is returned under a
\* channel filter
C8_Witness ==
    /\ search_pc = "returned"
    /\ bm25_index
    /\ search_filters.channel = "web"
    /\ \E i \in DOMAIN search_results :
          /\ search_results[i].channel = "both"
          /\ \A k \in DOMAIN metadata : metadata[k].chunk_id # search_results[i].chunk_id

\* the semantic hits of the search under way
SemanticHits == VectorStoreSearch(metadata, distances, search_top_k * 3, search_filters)

InSemanticHits(cid) == \E h \in Range(SemanticHits) : h.metadata.chunk_id = cid
InCorpus(cid) == \E k \in DOMAIN chunks : chunks[k].chunk_id = cid

DistanceOf(cid) == (CHOOSE h \in Range(SemanticHits) : h.metadata.chunk_id = cid).distance
BM25Of(cid) == bm25_scores[CHOOSE k \in DOMAIN chunks : chunks[k].chunk_id = cid]

SemanticPart(cid) ==
    IF InSemanticHits(cid) THEN RMul(vector_weight, R(1, 1 + DistanceOf(cid))) ELSE RZero

\* the lexical part as the specification words it: score / maximum, 0 when
\* the maximum is 0
LexicalPartByMax(cid) ==
    IF InCorpus(cid) /\ SeqMax(bm25_scores) # 0
    THEN RMul(bm25_weight, R(BM25Of(cid), SeqMax(bm25_scores)))
    ELSE RZero

\* the lexical part with a score that is not positive counting as 0
LexicalPartPositive(cid) ==
    IF InCorpus(cid) /\ BM25Of(cid) > 0
    THEN RMul(bm25_weight, R(BM25Of(cid), SeqMax(bm25_scores)))
    ELSE RZero

\* C9 as stated: the fused score is vector_weight / (1 + distance) plus
\* bm25_weight * (BM25 score / maximum BM25 score, 0 when the maximum is 0)
C9_FusedScoreByMax ==
    (search_pc = "returned" /\ bm25_index) =>
        \A i \in DOMAIN search_results :
            REq(search_results[i].score,
                RAdd(SemanticPart(search_results[i].chunk_id),
                     LexicalPartByMax(search_results[i].chunk_id)))

\* C9 amended: the lexical part is BM25 score / maximum BM25 score when the
\* score is positive and 0 otherwise; a result absent from the semantic hits
\* has semantic part 0, a result absent from the corpus lexical part 0
C9_FusedScore ==
    (search_pc = "returned" /\ bm25_index) =>
        \A i \in DOMAIN search_results :
            REq(search_results[i].score,
                RAdd(SemanticPart(search_results[i].chunk_id),
                     LexicalPartPositive(search_results[i].chunk_id)))

\* a result found on both paths with a positive score below the maximum, and
\* a result with a negative score, are returned
C9_Witness ==
    /\ search_pc = "returned" /\ bm25_index
    /\ \E i, j \in DOMAIN search_results :
          LET a == search_results[i].chunk_id
              b == search_results[j].chunk_id
          IN  /\ InSemanticHits(a) /\ InCorpus(a)
              /\ DistanceOf(a) > 0
              /\ BM25Of(a) > 0 /\ BM25Of(a) < SeqMax(bm25_scores)
              /\ InCorpus(b) /\ BM25Of(b) < 0

-----------------------------------------------------------------------------
(* Properties of detect_and_mask_pii                                       *)

\* C10: redacting the text returned by detect_and_mask_pii returns that text
\* unchanged
C10_RedactionIdempotent ==
    pii_pc = "remasked" => remasked = masked

\* a text in which a value was masked has been redacted twice
C10_Witness ==
    /\ pii_pc = "remasked"
    /\ masked # text
    /\ MaskChar \in Range(masked)
    /\ warnings # << >>

\* place of a warning message's category in the pattern table
CategoryPlace(w) ==
    CHOOSE n \in DOMAIN PII_PATTERNS :
        /\ _get_warning_message(PII_PATTERNS[n].type) = w
        /\ \A k \in 1..(n - 1) : _get_warning_message(PII_PATTERNS[k].type) # w

TableMessages == {_get_warning_message(PII_PATTERNS[n].type) : n \in DOMAIN PII_PATTERNS}

OnePerCategoryInTableOrder(ws) ==
    /\ \A i \in DOMAIN ws : ws[i] \in TableMessages
    /\ \A i, j \in DOMAIN ws : i < j => CategoryPlace(ws[i]) < CategoryPlace(ws[j])

\* the patterns of the table that match in t as it was typed
MatchingPatterns(t) == {n \in DOMAIN PII_PATTERNS : FindIter(t, PII_PATTERNS[n], 1) # << >>}

\* C12: the warnings of detect_and_mask_pii hold at most one message per
\* category, without duplicates, in the order of the pattern table, however
\* often and through however many patterns a category matches.
C12_OneWarningPerCategory ==
    /\ pii_pc \in {"masked", "remasked"} => OnePerCategoryInTableOrder(warnings)
    /\ pii_pc = "remasked" => OnePerCategoryInTableOrder(rewarnings)

\* a text matched by both password patterns, by one of them twice, and by an
\* account pattern was redacted with two warnings
C12_Witness ==
    /\ pii_pc = "masked"
    /\ Len(FindIter(text, PII_PATTERNS[1], 1)) = 2
    /\ {1, 2, 8} \subseteq MatchingPatterns(text)
    /\ Len(warnings) = 2

-----------------------------------------------------------------------------
(* Properties of mask_text                                                 *)

\* what the match text m becomes when its label and its separator are kept
\* and its value is replaced by as many mask characters as it has characters
\* (the blanks around the value are written as one blank before it)
KeptLabelMaskedValue(m) ==
    Slice(m, 1, FirstSep(m)) \o <<" ">> \o Stars(Len(ValueOf(m)))

\* t with the matches ms (in order, not overlapping) replaced, from position i
RECURSIVE ReplacedFrom(_, _, _)
ReplacedFrom(t, ms, i) ==
    IF ms = << >> THEN Slice(t, i, Len(t))
    ELSE LET m == Head(ms)
         IN  Slice(t, i, m[1] - 1)
               \o KeptLabelMaskedValue(SubSeq(t, m[1], m[2] - 1))
               \o ReplacedFrom(t, Tail(ms), m[2])

\* C11: mask_text replaces, in every match of the pattern, only the value
\* after the separator, by a run of '*' of the value's length; the label and
\* the separator character stay as they were, and so does the text outside
\* the matches.
C11_OnlyValueMasked ==
    mt_pc = "masked" =>
        mt_masked = ReplacedFrom(mt_text, FindIter(mt_text, PII_PATTERNS[mt_pattern], 1), 1)

-----------------------------------------------------------------------------
(* The request leaves the retriever as it found it                         *)

\* every retrieval made so far returned what the retriever, as it is now,
\* returns for the same query and filters
SearchIsFunctionOfStore ==
    \A k \in SearchCalls :
        calls[k].result = retrieve_faq(bm25_index, chunks, bm25_scores, metadata,
                                       distances, calls[k].query, calls[k].top_k,
                                       calls[k].filters)

\* the results of the request after conflict resolution, from its retrievals
ResultsOfRetrievals ==
    _resolve_conflicts(IF Cardinality(SearchCalls) = 2
                       THEN MergeRelaxed(FirstSearch.result, LastSearch.result)
                       ELSE FirstSearch.result)

\* the returned Answer is made of the replies of the model, of the
\* retrievals and of the warnings of the request, and of nothing else
AnswerIsFunctionOfRequest ==
    Returned =>
        /\ retrieved_docs = ResultsOfRetrievals
        /\ formatted_answer =
               CalibrateConfidence(AttachSafety(format_answer(ModelData, retrieved_docs),
                                                pii_warnings))

-----------------------------------------------------------------------------------------------------------------------------------------------------
(* The order of the stages of one request                                  *)

\* the stage that brought the request to position p, as its place in the
\* order redact, classify, rewrite, retrieve, relax-and-retry, resolve
\* conflicts, generate, format, calibrate confidence, attach safety
StageDone(p) ==
    CASE p = "start" -> 0
      [] p = "redacted" -> 1
      [] p = "classified" -> 2
      [] p = "rewritten" -> 3
      [] p = "retrieved" -> 4
      [] p = "merged" -> 5
      [] p = "resolved" -> 6
      [] p = "generated" -> 7
      [] p = "formatted" -> 8
      [] p = "returned" -> 9
      [] p = "safety_attached" -> 10
      [] OTHER -> 11

\* the same with the last two stages as the lines of process_question
\* have them: attach safety, then calibrate confidence
LineDone(p) ==
    CASE p = "safety_attached" -> 9
      [] p = "returned" -> 10
      [] OTHER -> StageDone(p)

\* every step of a request runs the stage after the one that ran last
InStageOrder == pc' # pc /\ pc' # "raised" => StageDone(pc') = StageDone(pc) + 1

InLineOrder == pc' # pc /\ pc' # "raised" => LineDone(pc') = LineDone(pc) + 1

\* the confidence adjustment has been applied to an answer
Calibrated(fa) ==
    NoCitations(fa) => IsLow(fa) /\ StartsWithNoMatch(fa.answer)

AtMostOneCallEach ==
    /\ Cardinality(ClassifyCalls) <= 1
    /\ Cardinality(RewriteCalls) <= 1
    /\ Cardinality(GenerateCalls) <= 1
    /\ Cardinality(SearchCalls) <= 2

\* C22: the stages of a request run in the order redact, classify,
\* rewrite, retrieve, relax-and-retry, resolve conflicts, generate, format,
\* calibrate confidence, attach safety; none runs twice (at most one
\* classify, one rewrite, one generate call and two retrievals); and a
\* request that has started reaches its end, the return of the Answer.
C22_StagesInOrderToTheEnd ==
    /\ [][InStageOrder]_vars
    /\ []AtMostOneCallEach
    /\ <>Returned

\* what the code does: the stages run in the order of the lines, none
\* twice, the answer is adjusted by format_answer before the safety text is
\* attached, and the request ends by returning or by raising
C22_StagesInLineOrder ==
    /\ [][InLineOrder]_vars
    /\ []AtMostOneCallEach
    /\ [](pc = "safety_attached" => Calibrated(formatted_answer))
    /\ <>(Returned \/ pc = "raised")

\* the end of the claim alone
C22_AlwaysReturns == <>Returned

-----------------------------------------------------------------------------
(* The intent and the category filter                                      *)

\* the categories of the classification prompt
Categories == {"login", "iche", "injeungseo", "oryukodeu", "boan", "susuryo",
               "hando", "gyejwadeungrok", "gita"}

\* C23: the intent of the classification stage is one of the nine
\* categories whatever text the model returns, so the category filter of
\* every retrieval is absent or one of the eight categories other than
\* 'gita'.
C23_IntentInClosedSet ==
    /\ ClassifyCalls # {} => intent \in Categories
    /\ \A k \in SearchCalls :
          calls[k].filters.category \in {None} \cup (Categories \ {"gita"})

-----------------------------------------------------------------------------
(* The second pass of the redactor                                         *)

\* C24: on the text returned by detect_and_mask_pii no pattern of the
\* table finds a match, so a second pass masks nothing, returns the text as
\* it is and returns no warning.
C24_SecondPassFindsNothing ==
    pii_pc = "remasked" =>
        /\ MatchingPatterns(masked) = {}
        /\ remasked = masked
        /\ rewarnings = << >>

-----------------------------------------------------------------------------
(* Properties of rerank                                                    *)

\* the distinct words of the query, in lower case
QueryWords == Range(_tokenize(rr_query))

\* the overlap score of the i-th result: 2 points per query word found in
\* its title and 1 point per query word found in its text
Overlap(i) ==
    2 * Cardinality({w \in QueryWords : Contains(Lower(rr_results[i].title), w)})
      + Cardinality({w \in QueryWords : Contains(Lower(rr_results[i].text), w)})

\* the i-th result comes before the j-th: its score is higher, or equal
\* with i the earlier of the two
Precedes(i, j) == Overlap(i) > Overlap(j) \/ (Overlap(i) = Overlap(j) /\ i < j)

\* the place of the i-th result in the order
RankOf(i) == 1 + Cardinality({j \in DOMAIN rr_results : Precedes(j, i)})

\* C25: rerank scores each result with 2 points per distinct query token
\* found in its title and 1 point per distinct query token found in its
\* text, returns the results by descending score with equal scores in input
\* order, and keeps the first top_k.
C25_RerankByOverlapStable ==
    rr_pc = "reranked" =>
        /\ Len(rr_reranked) = Min(rr_top_k, Len(rr_results))
        /\ \A i \in DOMAIN rr_results :
              RankOf(i) <= rr_top_k => rr_reranked[RankOf(i)] = rr_results[i]

\* three results were reranked and cut to two: the first two have the same
\* score and different content, the last has a higher score than both, and
\* one word of the query occurs in it twice
C25_Witness ==
    /\ rr_pc = "reranked"
    /\ Len(rr_results) = 3
    /\ rr_top_k = 2
    /\ Overlap(1) = Overlap(2)
    /\ rr_results[1] # rr_results[2]
    /\ Overlap(3) > Overlap(1)
    /\ Overlap(1) > 0
    /\ Len(_tokenize(rr_query)) = 3
    /\ Cardinality(QueryWords) = 2

-----------------------------------------------------------------------------
(* What a rebuild leaves in the data directory                             *)

\* a run of the build script that ended with return code 0 and wrote the
\* index files
SuccessfulBuild ==
    /\ builds' = builds + 1
    /\ drops' = drops + 1
    /\ index_file' # index_file \/ metadata_file' # metadata_file

\* C26: a successful rebuild over the chunks file leaves one vector and one
\* metadata entry per chunk of the file in the index, whatever index was
\* saved before, so that a second rebuild of the same corpus changes
\* nothing.
C26_RebuildIsFullReindex ==
    [][SuccessfulBuild =>
          /\ index_file' = chunks_file
          /\ metadata_file' = chunks_file
          /\ Len(index_file') = Len(chunks_file)]_vars

-----------------------------------------------------------------------------
(* The candidates of the hybrid search                                     *)

\* the chunk_ids among the semantic hits for k results under the filters fs
\* and among the corpus passages that satisfy fs
CandidateIds(k, fs) ==
    {h.metadata.chunk_id : h \in Range(VectorStoreSearch(metadata, distances, k * 3, fs))}
      \cup {chunks[i].chunk_id : i \in {j \in DOMAIN chunks : SatisfiesFilters(chunks[j], fs)}}

ResultIds(rs) == {rs[i].chunk_id : i \in DOMAIN rs}

\* C27: in hybrid mode search returns min(top_k, number of candidates)
\* results, the candidates being the distinct chunk_ids among the semantic
\* hits and the corpus passages that pass the filters, whatever their
\* scores; so it returns fewer results than asked for (fewer than 3 of the
\* 10 a request asks for) only when there are no more candidates.
C27_EveryPassingPassageIsCandidate ==
    (search_pc = "returned" /\ bm25_index) =>
        LET ids == CandidateIds(search_top_k, search_filters)
        IN  /\ Len(search_results) = Min(search_top_k, Cardinality(ids))
            /\ Cardinality(ResultIds(search_results)) = Len(search_results)
            /\ ResultIds(search_results) \subseteq ids
            /\ Len(search_results) < search_top_k => ResultIds(search_results) = ids

\* a corpus passage that no semantic hit holds and whose BM25 score is not
\* positive was returned with the fused score 0
C27_Witness ==
    /\ search_pc = "returned"
    /\ bm25_index
    /\ \E i \in DOMAIN search_results :
          /\ REq(search_results[i].score, RZero)
          /\ \A k \in DOMAIN metadata : metadata[k].chunk_id # search_results[i].chunk_id
          /\ \E k \in DOMAIN chunks :
                chunks[k].chunk_id = search_results[i].chunk_id /\ bm25_scores[k] <= 0

\* the same within a request: a retrieval of the hybrid retriever returns
\* fewer than 3 results only when fewer than 3 candidates exist
C27_RetryOnlyWhenFewCandidates ==
    bm25_index =>
        \A k \in SearchCalls :
            LET ids == CandidateIds(calls[k].top_k, calls[k].filters)
            IN  /\ Len(calls[k].result) = Min(calls[k].top_k, Cardinality(ids))
                /\ Len(calls[k].result) < RelaxThreshold => Cardinality(ids) < RelaxThreshold

-----------------------------------------------------------------------------
(* retrieve_faq and rerank                                                 *)

\* the passages of the vector index that the filters let through
PassingStore == {k \in DOMAIN metadata : ~StoreRejects(metadata[k], search_filters)}

\* s in the order of t: the elements of s are found in t at growing positions
RECURSIVE InOrderOf(_, _)
InOrderOf(ids, t) ==
    IF ids = << >> THEN TRUE
    ELSE IF t = << >> THEN FALSE
    ELSE IF Head(ids) = Head(t) THEN InOrderOf(Tail(ids), Tail(t))
    ELSE InOrderOf(ids, Tail(t))

\* the chunk_ids of the vector index, nearest first (ties by position)
NearestIds ==
    LET hits == IndexSearch(distances, Len(metadata))
    IN  [i \in 1..Len(hits) |-> metadata[hits[i]].chunk_id]

\* C28: retrieve_faq never sends the results through rerank: search returns
\* at most top_k results with and without the lexical index, so
\* retrieve_faq returns them as search ordered them (in pure-semantic mode,
\* nearest first; in hybrid mode, by descending fused score).
C28_RerankNeverInvoked ==
    /\ search_pc # "reranked"
    /\ search_pc = "retrieved" =>
          /\ Len(search_results) <= search_top_k
          /\ ~bm25_index =>
                InOrderOf([i \in DOMAIN search_results |-> search_results[i].chunk_id],
                          NearestIds)
          /\ bm25_index =>
                \A i, j \in DOMAIN search_results :
                    i < j => RLeq(search_results[j].score, search_results[i].score)

\* retrieve_faq returned top_k results of a pure-semantic retriever whose
\* index held more passages that pass the filters
C28_Witness ==
    /\ search_pc = "retrieved"
    /\ ~bm25_index
    /\ Len(search_results) = search_top_k
    /\ Cardinality(PassingStore) > search_top_k

-----------------------------------------------------------------------------
(* The citations of a returned answer                                      *)

\* the citations of an answer, as a sequence
CitationsOf(fa) == IF fa.citations.kind = "list" THEN fa.citations.val ELSE << >>

\* title and url of the citation are those of one result that survived the
\* conflict resolution
Grounded(c) ==
    \E i \in DOMAIN retrieved_docs :
        c.title = retrieved_docs[i].title /\ c.url = retrieved_docs[i].url

\* the model gave no citations, so that format_answer wrote them
Synthesized == Falsy(Get(ModelData, "citations", JList(<< >>)))

\* synthesized citations follow the first 5 results and repeat no faq_id
SynthesizedInOrder ==
    LET cs == CitationsOf(formatted_answer)
    IN  (Returned /\ Synthesized) =>
            /\ Len(cs) = Min(MaxCitations, Len(retrieved_docs))
            /\ \A i \in DOMAIN cs :
                  /\ cs[i].title = retrieved_docs[i].title
                  /\ cs[i].url = retrieved_docs[i].url
                  /\ cs[i].faq_id = retrieved_docs[i].faq_id
            /\ \A i, j \in DOMAIN cs :
                  (i < j /\ Truthy(cs[i].faq_id)) => cs[i].faq_id # cs[j].faq_id

\* C29: every citation of a returned answer has the title and url of one of
\* the request's results that survived conflict resolution; citations
\* synthesized from the results follow the first 5 of them in order and
\* never cite the same non-empty faq_id twice.
C29_CitationsGrounded ==
    /\ Returned =>
          \A i \in DOMAIN CitationsOf(formatted_answer) :
              Grounded(CitationsOf(formatted_answer)[i])
    /\ SynthesizedInOrder

\* the part about synthesized citations alone
C29_SynthesizedCitationsGrounded ==
    /\ (Returned /\ Synthesized) =>
          \A i \in DOMAIN CitationsOf(formatted_answer) :
              Grounded(CitationsOf(formatted_answer)[i])
    /\ SynthesizedInOrder

\* an answer with two synthesized citations was returned
C29_SynthesizedWitness ==
    Returned /\ Synthesized /\ Len(CitationsOf(formatted_answer)) >= 2

-----------------------------------------------------------------------------
(* The cached references across a reindex                                  *)

References == <<_agent, _vector_store, _retriever>>

\* a step of rebuild_index
ReindexStep == builds' = builds + 1

\* the script wrote the index and the metadata anew; a script that stops
\* before its save leaves the metadata file as it was
ScriptBuilt == ReindexStep /\ metadata_file' # metadata_file
ScriptFailed == ReindexStep /\ metadata_file' = metadata_file

\* line 329 of ask_question
AskStep == req_pc = "idle" /\ req_pc' = "processing"

\* the request is served by the cached agent, or by a new one when no
\* agent is cached, which is cached from then on
ServedByCachedAgent ==
    AskStep =>
        /\ req_agent' = _agent'
        /\ _agent' # 0 /\ _vector_store' = _agent' /\ _retriever' = _agent'
        /\ IF _agent = 0
           THEN _agent' = Len(instances) + 1 /\ Len(instances') = Len(instances) + 1
           ELSE UNCHANGED <<_agent, instances>>

\* no step but a reindex changes a cached reference
OnlyReindexDrops == (~ReindexStep /\ _agent # 0) => UNCHANGED References

\* C30: a reindex whose build script fails leaves the three cached
\* references unchanged, so that later requests are served by the same
\* agent; a successful reindex clears the three references, the next ask
\* request constructs a new agent, and that agent serves every request
\* until the next successful reindex.
C30_FailedReindexKeepsAgent ==
    [][/\ ScriptFailed => UNCHANGED References
       /\ ScriptBuilt => (_agent' = 0 /\ _vector_store' = 0 /\ _retriever' = 0)
       /\ ServedByCachedAgent
       /\ OnlyReindexDrops]_vars

\* the same with failure read as a return code other than 0 of the script
C30_NonZeroReturnCodeKeepsAgent ==
    [][/\ (ReindexStep /\ drops' = drops) => UNCHANGED References
       /\ (ReindexStep /\ drops' # drops) =>
              (_agent' = 0 /\ _vector_store' = 0 /\ _retriever' = 0)
       /\ ServedByCachedAgent
       /\ OnlyReindexDrops]_vars

\* a reindex left a cached agent in place and a later request was served
\* by it
C30_KeptAgentWitness ==
    /\ builds > 0 /\ drops = 0
    /\ req_pc = "processing" /\ req_agent = 1 /\ Len(instances) = 1

====
